---- MODULE Spec2Model ----
(***************************************************************************)
(* A model of the wrparsecxx C/C++ lexer front end: the dialect options    *)
(* object (CXXOptions), the logical character reader of CXXLexer           *)
(* (trigraphs and line splicing), the token reader CXXLexer::readToken     *)
(* with its closing-token stack and next-token flags, and preprocessor     *)
(* directive recognition (CXXLexer::ppDirective).                          *)
(*                                                                         *)
(* Characters are one-character strings, texts are sequences of            *)
(* characters.  The character source (class Lexer: read, peek, backtrack,  *)
(* erase, replace, lastRead, the next-token flag accumulator) belongs to   *)
(* the wrparse base library; it is modelled from its described interface.  *)
(***************************************************************************)
EXTENDS Integers, Sequences, FiniteSets, TLC

VARIABLES
    languages,          \* argument `languages' of CXXOptions::CXXOptions
    extra_features,     \* argument `extra_features' of CXXOptions::CXXOptions
    options_,           \* the CXXOptions object (CXXLexer::options_)
    input,              \* the source text given to the lexer (never changes)
    buf,                \* character source: the text as folded/spliced so far
    pos,                \* character source: number of characters consumed
    next_token_flags,   \* Lexer: flag accumulator for the next token
    closing_tokens_,    \* CXXLexer::closing_tokens_ (front = head)
    closing_src,        \* history: for each stack entry, index of its pusher
    pushed,             \* history: fate of every closer pushed so far
    ntok,               \* history: number of tokens read by readToken
    tokens,             \* history: the tokens returned by lex(), in order
    status,             \* "run", "eof" (EOF returned) or "fault"
    logical,            \* history: characters returned by CXXLexer::read()
    pp_name,            \* a directive name handed to ppDirective
    pp_kind,            \* the token kind ppDirective gave it
    diagnostics,        \* history: severities emitted by the last operation
    ucn_ret,            \* the value CXXLexer::ucn() returned
    cursor,             \* parser: index of the current token (state.input())
    hook_ret,           \* what processTemplParmArgListEndToken returned
    decl_spec_seq,      \* the children of a parsed specifier sequence
    decl_fold,          \* history: the DeclSpecifier object after each child
    decl_aux,           \* the data attached to the sequence node (or none)
    decl_ok,            \* what DeclSpecifier::end returned ("none": not run)
    dcl_node,           \* the children of a parsed declarator node
    dcl_aux,            \* the Declarator data attached to it (or none)
    lit_a,              \* a literal node handed to Literal::Literal
    lit_b,              \* a second literal node
    lit_A,              \* the Literal constructed from lit_a
    lit_B,              \* the Literal constructed from lit_b
    lit_self,           \* areEquivalent(lit_A, lit_A, lit_A.type)
    lit_equiv,          \* areEquivalent(lit_A, lit_B, bestCommonType(..))
    lit_state,          \* "none", "done", or "fault" (the overflow trapped)
    token_reset         \* history: the last readToken called t.reset()

vars == <<languages, extra_features, options_, input, buf, pos,
          next_token_flags, closing_tokens_, closing_src, pushed, ntok,
          tokens, status, logical, pp_name, pp_kind, diagnostics, ucn_ret,
          cursor, hook_ret, decl_spec_seq, decl_fold, decl_aux, decl_ok,
          dcl_node, dcl_aux, lit_a, lit_b, lit_A, lit_B, lit_self, lit_equiv,
          lit_state, token_reset>>

optVars == <<languages, extra_features, options_>>
lexVars == <<input, buf, pos, next_token_flags, closing_tokens_,
             closing_src, pushed, ntok, tokens, status>>
ucnVars == <<diagnostics, ucn_ret>>
hookVars == <<cursor, hook_ret>>
declVars == <<decl_spec_seq, decl_fold, decl_aux, decl_ok>>
dclVars == <<dcl_node, dcl_aux>>
litVars == <<lit_a, lit_b, lit_A, lit_B, lit_self, lit_equiv, lit_state>>
rstVars == <<token_reset>>
auxVars == <<ucnVars, hookVars, declVars, dclVars, litVars, rstVars>>
ppVars  == <<pp_name, pp_kind>>

(***************************************************************************)
(* Language standards and features (CXXOptions.h)                          *)
(***************************************************************************)
C89 == 1
C90 == 2
C95 == 3
C99 == 4
C11 == 5
C_LANG == 255
CXX98 == 256
CXX03 == 512
CXX11 == 768
CXX14 == 1024
CXX17 == 1280
CXX_LANG == 65280

KEEP_SPACE         == "KEEP_SPACE"
KEEP_COMMENTS      == "KEEP_COMMENTS"
LINE_COMMENTS      == "LINE_COMMENTS"
LONG_LONG          == "LONG_LONG"
DIGRAPHS           == "DIGRAPHS"
TRIGRAPHS          == "TRIGRAPHS"
BINARY_LITERALS    == "BINARY_LITERALS"
UTF8_CHAR_LITERALS == "UTF8_CHAR_LITERALS"
HEX_FLOAT_LITERALS == "HEX_FLOAT_LITERALS"
UCNS               == "UCNS"
IDENTIFIER_DOLLARS == "IDENTIFIER_DOLLARS"
INLINE_FUNCTIONS   == "INLINE_FUNCTIONS"
NO_PP_DIRECTIVES   == "NO_PP_DIRECTIVES"

\* every feature bit; a feature set is a subset of this set
AllFeatures ==
    {KEEP_SPACE, KEEP_COMMENTS, LINE_COMMENTS, LONG_LONG, DIGRAPHS,
     TRIGRAPHS, BINARY_LITERALS, UTF8_CHAR_LITERALS, HEX_FLOAT_LITERALS,
     UCNS, IDENTIFIER_DOLLARS, INLINE_FUNCTIONS, NO_PP_DIRECTIVES}

\* bitwise exclusive or of two feature sets
FeatureXor(a, b) == (a \ b) \cup (b \ a)

C89_STD_FEATURES == {TRIGRAPHS}
C90_STD_FEATURES == C89_STD_FEATURES
C95_STD_FEATURES == {DIGRAPHS, TRIGRAPHS}
C99_STD_FEATURES ==
    C95_STD_FEATURES \cup {LINE_COMMENTS, UCNS, LONG_LONG,
                           HEX_FLOAT_LITERALS, INLINE_FUNCTIONS}
C11_STD_FEATURES == C99_STD_FEATURES
CXX98_STD_FEATURES == {LINE_COMMENTS, DIGRAPHS, TRIGRAPHS, INLINE_FUNCTIONS}
CXX03_STD_FEATURES == CXX98_STD_FEATURES
CXX11_STD_FEATURES == CXX03_STD_FEATURES \cup {LONG_LONG, UCNS}
CXX14_STD_FEATURES == CXX11_STD_FEATURES \cup {BINARY_LITERALS}
CXX17_STD_FEATURES ==
    FeatureXor(CXX14_STD_FEATURES, {TRIGRAPHS})
        \cup {UTF8_CHAR_LITERALS, HEX_FLOAT_LITERALS}

\* CXXOptions::c() and CXXOptions::cxx(): the two selector fields
c(l)   == l % (C_LANG + 1)
cxx(l) == (l % (C_LANG + CXX_LANG + 1)) - c(l)

\* the tables C_LANG_DATA and CXX_LANG_DATA of the constructor
C_LANG_DATA ==
    <<[standard |-> C89, features |-> C89_STD_FEATURES],
      [standard |-> C90, features |-> C90_STD_FEATURES],
      [standard |-> C95, features |-> C95_STD_FEATURES],
      [standard |-> C99, features |-> C99_STD_FEATURES],
      [standard |-> C11, features |-> C11_STD_FEATURES]>>

CXX_LANG_DATA ==
    <<[standard |-> CXX98, features |-> CXX98_STD_FEATURES],
      [standard |-> CXX03, features |-> CXX03_STD_FEATURES],
      [standard |-> CXX11, features |-> CXX11_STD_FEATURES],
      [standard |-> CXX14, features |-> CXX14_STD_FEATURES],
      [standard |-> CXX17, features |-> CXX17_STD_FEATURES]>>

\* Internals::initLanguage: ok is FALSE when `selected' is in no table row
initLanguage(me, data, selected) ==
    IF selected = 0 THEN me
    ELSE LET rows == {i \in 1..Len(data) : data[i].standard = selected}
         IN  IF rows = {} THEN [me EXCEPT !.state = "throw"]
             ELSE LET lang == data[CHOOSE i \in rows : TRUE]
                  IN  [me EXCEPT !.features_ = @ \cup lang.features]

\* CXXOptions::CXXOptions(languages, extra_features)
CXXOptionsNew(langs, extra) ==
    LET me0 == [state |-> "ok", languages_ |-> langs, features_ |-> {},
                inline_keyword |-> FALSE]
        old == (c(langs) # 0 /\ c(langs) < C11)
                   \/ (cxx(langs) # 0 /\ cxx(langs) < CXX11)
        newer == c(langs) >= C11 \/ cxx(langs) >= CXX11
    IN  IF c(langs) = 0 /\ cxx(langs) = 0
        THEN [me0 EXCEPT !.state = "throw"]
        ELSE IF old /\ ~newer /\ UTF8_CHAR_LITERALS \in extra
        THEN [me0 EXCEPT !.state = "throw"]
        ELSE LET me1 == initLanguage(me0, C_LANG_DATA, c(langs))
                 me2 == IF me1.state = "throw" THEN me1
                        ELSE initLanguage(me1, CXX_LANG_DATA, cxx(langs))
             IN  IF me2.state = "throw" THEN me2
                 ELSE [me2 EXCEPT
                         !.inline_keyword = INLINE_FUNCTIONS \in extra,
                         !.features_ =
                             IF NO_PP_DIRECTIVES \in extra
                             THEN @ \cup {NO_PP_DIRECTIVES} ELSE @]

\* CXXOptions::have(want)
have(o, want) == want \subseteq o.features_

\* the object before its constructor has run
NoOptions == [state |-> "none", languages_ |-> 0, features_ |-> {},
              inline_keyword |-> FALSE]

(***************************************************************************)
(* Characters, token kinds and token flags                                 *)
(***************************************************************************)
NL   == "\n"
BSL  == "\\"
EOFC == "eof"           \* the sentinel `eof' of the character source

TF_STARTS_LINE  == "STARTS_LINE"
TF_SPACE_BEFORE == "SPACE_BEFORE"
TF_ALTERNATE    == "ALTERNATE"
TF_PREPROCESS   == "PREPROCESS"
TF_SPLITABLE    == "SPLITABLE"

\* isuspace, isualpha (below 0x80), isudigit on the characters of the model
isuspace(ch) == ch \in {" ", NL, "\t", "\r", "\f"}
isualpha(ch) ==
    ch \in {"a", "b", "c", "d", "e", "f", "g", "h", "i", "j", "k", "l", "m",
            "n", "o", "p", "q", "r", "s", "t", "u", "v", "w", "x", "y", "z",
            "A", "B", "C", "D", "E", "F", "G", "H", "I", "J", "K", "L", "M",
            "N", "O", "P", "Q", "R", "S", "T", "U", "V", "W", "X", "Y", "Z"}
isudigit(ch) == ch \in {"0", "1", "2", "3", "4", "5", "6", "7", "8", "9"}

\* the hexadecimal digits in the order of their values (lower case)
HexDigits ==
    <<"0", "1", "2", "3", "4", "5", "6", "7", "8", "9",
      "a", "b", "c", "d", "e", "f">>
HexUpper == <<"A", "B", "C", "D", "E", "F">>
isuxdigit(ch) ==
    \/ \E i \in DOMAIN HexDigits : HexDigits[i] = ch
    \/ \E i \in DOMAIN HexUpper : HexUpper[i] = ch
\* uxdigitval: the value of a hexadecimal digit
uxdigitval(ch) ==
    IF \E i \in DOMAIN HexDigits : HexDigits[i] = ch
    THEN (CHOOSE i \in DOMAIN HexDigits : HexDigits[i] = ch) - 1
    ELSE (CHOOSE i \in DOMAIN HexUpper : HexUpper[i] = ch) + 9

\* the table TOKEN_KINDS: default spelling of the fixed-spelling kinds
defaultSpelling(kind) ==
    CASE kind = "LPAREN"       -> <<"(">>
      [] kind = "RPAREN"       -> <<")">>
      [] kind = "LSQUARE"      -> <<"[">>
      [] kind = "RSQUARE"      -> <<"]">>
      [] kind = "LBRACE"       -> <<"{">>
      [] kind = "RBRACE"       -> <<"}">>
      [] kind = "SLASH"        -> <<"/">>
      [] kind = "SLASHEQUAL"   -> <<"/", "=">>
      [] kind = "PERCENT"      -> <<"%">>
      [] kind = "PERCENTEQUAL" -> <<"%", "=">>
      [] kind = "LESS"         -> <<"<">>
      [] kind = "LESSEQUAL"    -> <<"<", "=">>
      [] kind = "LSHIFT"       -> <<"<", "<">>
      [] kind = "LSHIFTEQUAL"  -> <<"<", "<", "=">>
      [] kind = "GREATER"      -> <<">">>
      [] kind = "GREATEREQUAL" -> <<">", "=">>
      [] kind = "RSHIFT"       -> <<">", ">">>
      [] kind = "RSHIFTEQUAL"  -> <<">", ">", "=">>
      [] kind = "QUESTION"     -> <<"?">>
      [] kind = "COLON"        -> <<":">>
      [] kind = "SEMI"         -> <<";">>
      [] kind = "EQUAL"        -> <<"=">>
      [] kind = "EQUALEQUAL"   -> <<"=", "=">>
      [] kind = "COMMA"        -> <<",">>
      [] kind = "TILDE"        -> <<"~">>
      [] kind = "HASH"         -> <<"#">>
      [] kind = "HASHHASH"     -> <<"#", "#">>
      [] kind = "COLONCOLON"   -> <<":", ":">>
      [] kind = "DOT"          -> <<".">>
      [] kind = "DOTSTAR"      -> <<".", "*">>
      [] kind = "ELLIPSIS"     -> <<".", ".", ".">>
      [] kind = "PLUS"         -> <<"+">>
      [] kind = "PLUSEQUAL"    -> <<"+", "=">>
      [] kind = "PLUSPLUS"     -> <<"+", "+">>
      [] kind = "MINUS"        -> <<"-">>
      [] kind = "MINUSEQUAL"   -> <<"-", "=">>
      [] kind = "MINUSMINUS"   -> <<"-", "-">>
      [] kind = "ARROW"        -> <<"-", ">">>
      [] kind = "ARROWSTAR"    -> <<"-", ">", "*">>
      [] kind = "STAR"         -> <<"*">>
      [] kind = "STAREQUAL"    -> <<"*", "=">>
      [] kind = "AMP"          -> <<"&">>
      [] kind = "AMPEQUAL"     -> <<"&", "=">>
      [] kind = "AMPAMP"       -> <<"&", "&">>
      [] kind = "PIPE"         -> <<"|">>
      [] kind = "PIPEEQUAL"    -> <<"|", "=">>
      [] kind = "PIPEPIPE"     -> <<"|", "|">>
      [] kind = "CARET"        -> <<"^">>
      [] kind = "CARETEQUAL"   -> <<"^", "=">>
      [] kind = "EXCLAIM"      -> <<"!">>
      [] kind = "EXCLAIMEQUAL" -> <<"!", "=">>
      [] kind = "DOLLAR"       -> <<"$">>
      [] kind = "KW_IF"        -> <<"i", "f">>
      [] kind = "KW_ELSE"      -> <<"e", "l", "s", "e">>
      [] kind = "KW_DO"        -> <<"d", "o">>
      [] kind = "PP_INCLUDE"   -> <<"#", "i", "n", "c", "l", "u", "d", "e">>
      [] kind = "PP_INCLUDE_NEXT" ->
             <<"#", "i", "n", "c", "l", "u", "d", "e", "_", "n", "e", "x", "t">>
      [] kind = "PP_DEFINE"    -> <<"#", "d", "e", "f", "i", "n", "e">>
      [] kind = "PP_UNDEF"     -> <<"#", "u", "n", "d", "e", "f">>
      [] kind = "PP_IF"        -> <<"#", "i", "f">>
      [] kind = "PP_IFDEF"     -> <<"#", "i", "f", "d", "e", "f">>
      [] kind = "PP_IFNDEF"    -> <<"#", "i", "f", "n", "d", "e", "f">>
      [] kind = "PP_ELIF"      -> <<"#", "e", "l", "i", "f">>
      [] kind = "PP_ELSE"      -> <<"#", "e", "l", "s", "e">>
      [] kind = "PP_ENDIF"     -> <<"#", "e", "n", "d", "i", "f">>
      [] kind = "PP_LINE"      -> <<"#", "l", "i", "n", "e">>
      [] kind = "PP_ERROR"     -> <<"#", "e", "r", "r", "o", "r">>
      [] kind = "PP_WARNING"   -> <<"#", "w", "a", "r", "n", "i", "n", "g">>
      [] kind = "PP_PRAGMA"    -> <<"#", "p", "r", "a", "g", "m", "a">>
      [] kind = "PP_NULL"      -> <<"#">>
      [] OTHER                 -> <<>>

\* the directive kinds TOK_PP_INCLUDE .. TOK_PP_PRAGMA (PP_NULL is outside)
isPreprocessorDirective(kind) ==
    kind \in {"PP_INCLUDE", "PP_INCLUDE_NEXT", "PP_DEFINE", "PP_UNDEF",
              "PP_IF", "PP_IFDEF", "PP_IFNDEF", "PP_ELIF", "PP_ELSE",
              "PP_ENDIF", "PP_LINE", "PP_ERROR", "PP_WARNING", "PP_PRAGMA"}

\* TOK_LPAREN .. TOK_COLONCOLON, as far as the model's kinds go
isPunctuation(kind) ==
    kind \in {"LPAREN", "RPAREN", "LSQUARE", "RSQUARE", "LBRACE", "RBRACE",
              "SLASH", "SLASHEQUAL", "PERCENT", "PERCENTEQUAL", "LESS",
              "LESSEQUAL", "LSHIFT", "LSHIFTEQUAL", "GREATER",
              "GREATEREQUAL", "RSHIFT", "RSHIFTEQUAL", "QUESTION", "COLON",
              "SEMI", "EQUAL", "EQUALEQUAL", "COMMA", "TILDE", "HASH",
              "HASHHASH", "COLONCOLON", "DOT", "DOTSTAR", "ELLIPSIS", "PLUS",
              "PLUSEQUAL", "PLUSPLUS", "MINUS", "MINUSEQUAL", "MINUSMINUS",
              "ARROW", "ARROWSTAR", "STAR", "STAREQUAL", "AMP", "AMPEQUAL",
              "AMPAMP", "PIPE", "PIPEEQUAL", "PIPEPIPE", "CARET",
              "CARETEQUAL", "EXCLAIM", "EXCLAIMEQUAL"}

(***************************************************************************)
(* The character source (class Lexer of the base library).  A lexer is a   *)
(* record L; every operation returns the lexer after it, with the          *)
(* character it returned in L.ret and a boolean result in L.ok.            *)
(***************************************************************************)
CharAt(b, i) == IF i >= 1 /\ i <= Len(b) THEN b[i] ELSE EOFC

\* Lexer::read(): consume one character
base_read(L) ==
    [L EXCEPT !.pos = @ + 1, !.ret = CharAt(L.buf, L.pos + 1)]

\* Lexer::peek()
base_peek(L) == [L EXCEPT !.ret = CharAt(L.buf, L.pos + 1)]

\* Lexer::lastRead()
lastRead(L) == CharAt(L.buf, L.pos)

\* Lexer::backtrack(n)
backtrack(L, n) == [L EXCEPT !.pos = IF @ >= n THEN @ - n ELSE 0]

\* Lexer::erase(n): drop the last n characters consumed
erase(L, n) ==
    [L EXCEPT !.buf = SubSeq(@, 1, L.pos - n) \o SubSeq(@, L.pos + 1, Len(@)),
              !.pos = @ - n]

\* Lexer::replace(n, ch): the last n characters consumed become ch
replace(L, n, ch) ==
    [L EXCEPT !.buf = SubSeq(@, 1, L.pos - n) \o <<ch>>
                          \o SubSeq(@, L.pos + 1, Len(@)),
              !.pos = @ - n + 1]

\* input().eof(): the stream has nothing left
inputEof(L) == L.pos >= Len(L.buf)

\* the token at position p is the first one on its line: only white space
\* lies between the previous newline (or the start of the text) and p
StartsLine(b, p) ==
    \A i \in 1..p :
        (\A j \in i..p : CharAt(b, j) # NL) => isuspace(CharAt(b, i))

\* white space other than a newline lies right before position p
SpaceBefore(b, p) == isuspace(CharAt(b, p)) /\ CharAt(b, p) # NL

\* Lexer::lex(t): initialise the token at the current position; its flags
\* are the accumulated next-token flags and the two position marks
base_lex(L) ==
    [L EXCEPT !.t = [kind |-> "NULL", spelling |-> <<>>, offset |-> L.pos,
                     flags |-> (L.ntf \ {TF_STARTS_LINE, TF_SPACE_BEFORE})
                         \cup (IF StartsLine(L.buf, L.pos)
                                THEN {TF_STARTS_LINE} ELSE {})
                         \cup (IF SpaceBefore(L.buf, L.pos)
                                THEN {TF_SPACE_BEFORE} ELSE {})]]

(***************************************************************************)
(* CXXLexer: logical characters                                            *)
(***************************************************************************)
\* the switch of handleTrigraph: third character -> folded character
TrigraphOf(ch) ==
    CASE ch = "<"  -> "{"
      [] ch = ">"  -> "}"
      [] ch = "("  -> "["
      [] ch = ")"  -> "]"
      [] ch = "="  -> "#"
      [] ch = "/"  -> BSL
      [] ch = "'"  -> "^"
      [] ch = "!"  -> "|"
      [] ch = "-"  -> "~"
      [] OTHER     -> EOFC

\* handleTrigraph, after the second character was read: the third one is
\* read and switched on
trigraphSecond(L1, ch) ==
    IF L1.ret # "?" THEN [backtrack(L1, 1) EXCEPT !.ret = ch]
    ELSE IF TrigraphOf(base_read(L1).ret) = EOFC
    THEN [backtrack(base_read(L1), 2) EXCEPT !.ret = ch]
    ELSE [replace(base_read(L1), 3, TrigraphOf(base_read(L1).ret))
              EXCEPT !.ret = TrigraphOf(base_read(L1).ret)]

\* variant of handleTrigraph that returns the replacement character but
\* leaves the three characters in the buffer
handleTrigraph_NoReplace(L) ==
    LET Third(L2, ch) ==
            IF TrigraphOf(L2.ret) = EOFC
            THEN [backtrack(L2, 2) EXCEPT !.ret = ch]
            ELSE [L2 EXCEPT !.ret = TrigraphOf(L2.ret)]
        Second(L1, ch) ==
            IF L1.ret # "?" THEN [backtrack(L1, 1) EXCEPT !.ret = ch]
            ELSE Third(base_read(L1), ch)
        First(ch) ==
            IF ch # "?" THEN [L EXCEPT !.ret = ch]
            ELSE Second(base_read(L), ch)
    IN  First(lastRead(L))

\* CXXLexer::handleTrigraph()
handleTrigraph(L) ==
    IF lastRead(L) # "?" THEN [L EXCEPT !.ret = lastRead(L)]
    ELSE trigraphSecond(base_read(L), lastRead(L))

\* CXXLexer::handleEscapedNewLine(); result in .ok
handleEscapedNewLine(L) ==
    IF lastRead(L) = BSL /\ base_peek(L).ret = NL
    THEN [erase(base_read(L), 2) EXCEPT !.ok = TRUE]
    ELSE [L EXCEPT !.ok = FALSE]

RECURSIVE read(_)
\* read: while (handleEscapedNewLine()); return c
readSpliced(L3, ch) == IF L3.ok THEN read(L3) ELSE [L3 EXCEPT !.ret = ch]

\* read: the condition of the loop, c being the character in .ret
readFolded(L2) == readSpliced(handleEscapedNewLine(L2), L2.ret)

\* CXXLexer::read()
read(L) ==
    readFolded(IF have(L.o, {TRIGRAPHS}) /\ base_read(L).ret = "?"
               THEN handleTrigraph(base_read(L)) ELSE base_read(L))

RECURSIVE peek(_)
\* peek: repeat after an escaped newline, else backtrack() and return c
peekSpliced(L2, c0) ==
    IF L2.ok THEN peek(L2) ELSE [backtrack(L2, 1) EXCEPT !.ret = c0]

\* peek: the test of handleEscapedNewLine(), c being the character in .ret
peekFolded(L1) == peekSpliced(handleEscapedNewLine(L1), L1.ret)

\* CXXLexer::peek()
peek(L) ==
    IF have(L.o, {TRIGRAPHS}) /\ base_peek(L).ret = "?"
    THEN peekFolded(handleTrigraph(base_read(L)))
    ELSE IF base_peek(L).ret = BSL
    THEN peekFolded(base_read(L))
    ELSE base_peek(L)

(***************************************************************************)
(* CXXLexer::ucn(): a universal character name after a backslash           *)
(***************************************************************************)
\* emit(severity, ...): the diagnostic is recorded by its severity
emit(L, severity) == [L EXCEPT !.diags = Append(@, severity)]

\* a character outside the texts' alphabet, named by its code point
CodePoint(cp) == "U+" \o ToString(cp)

\* a char32_t is kept as its two 16-bit halves <<high, low>>
Char32(hi, lo) == <<hi % 65536, lo % 65536>>
ShiftIn(c32, digit) ==
    Char32(c32[1] * 16 + (c32[2] \div 4096), (c32[2] % 4096) * 16 + digit)
IsSurrogate(c32) == c32[1] = 0 /\ c32[2] >= 55296 /\ c32[2] <= 57343
\* static_cast<uint32_t>(c) > 0x1fffff
AboveRange(c32) == c32[1] > 31
Char32Value(c32) == c32[1] * 65536 + c32[2]

\* the part of ucn() after the digit loop: i digits of n were read
ucnFinish(L, n, i, cp) ==
    IF i < n
    THEN [backtrack(emit(L, "ERROR"), i + 1) EXCEPT !.ret = EOFC]
    ELSE IF IsSurrogate(cp)
    THEN [emit(L, "ERROR") EXCEPT !.ret = EOFC]
    ELSE IF AboveRange(cp)
    THEN [emit(L, "ERROR") EXCEPT !.ret = EOFC]
    ELSE [replace(L, n + 2, CodePoint(Char32Value(cp)))
              EXCEPT !.ret = CodePoint(Char32Value(cp))]

RECURSIVE ucnDigits(_, _, _, _)
\* the digit loop of ucn(): c is a char32_t
ucnDigits(L, n, i, cp) ==
    LET Peeked(P) ==
            IF isuxdigit(P.ret)
            THEN ucnDigits(read(P), n, i + 1, ShiftIn(cp, uxdigitval(P.ret)))
            ELSE ucnFinish(P, n, i, cp)
    IN  IF i < n THEN Peeked(peek(L)) ELSE ucnFinish(L, n, i, cp)

\* CXXLexer::ucn()
ucn(L) ==
    LET Start(R) ==
            IF R.ret = "u" THEN ucnDigits(R, 4, 0, Char32(0, 0))
            ELSE IF R.ret = "U" THEN ucnDigits(R, 8, 0, Char32(0, 0))
            ELSE [backtrack(R, 1) EXCEPT !.ret = EOFC]
    IN  Start(read(L))

(***************************************************************************)
(* CXXLexer: the closing-token stack                                       *)
(***************************************************************************)
\* what front() of the empty closing_tokens_ list can do: the read faults,
\* or it yields some value that is not the closer asked for
UBOutcomes == {"fault", "nomatch"}

\* CXXLexer::pushClosingToken(k)
pushClosingToken(L, k) ==
    [L EXCEPT !.stack = <<k>> \o @,
              !.src = <<Len(L.pushed) + 1>> \o @,
              !.pushed = Append(@, [closer |-> k, fate |-> "open"])]

\* closing_tokens_.pop_front(), noting the token that caused it
pop_front(L) ==
    [L EXCEPT !.stack = Tail(@), !.src = Tail(@),
              !.pushed[Head(L.src)].fate = L.t.kind]

RECURSIVE popClosingTokenIf(_, _)
RECURSIVE popWhileGreater(_)
\* the loop while (popClosingTokenIf(TOK_GREATER)) of popClosingTokenIf
popWhileGreater(L) ==
    LET Popped(L1) == IF L1.ok THEN popWhileGreater(L1) ELSE L1
    IN  Popped(popClosingTokenIf(L, "GREATER"))

\* CXXLexer::popClosingTokenIf(k); result in .ok
popClosingTokenIf(L, k) ==
    LET Front(L1) ==
            IF L1.stack = <<>>
            THEN [L1 EXCEPT !.ok = FALSE, !.fault = @ \/ (L.ub = "fault")]
            ELSE IF Head(L1.stack) = k
            THEN [pop_front(L1) EXCEPT !.ok = TRUE]
            ELSE [L1 EXCEPT !.ok = FALSE]
    IN  IF L.stack = <<>> THEN [L EXCEPT !.ok = FALSE]
        ELSE Front(IF k # "GREATER" THEN popWhileGreater(L) ELSE L)

\* CXXLexer::nextClosingTokenIs(k)
nextClosingTokenIs(L, k) == L.stack # <<>> /\ Head(L.stack) = k

(***************************************************************************)
(* CXXLexer: the token rules                                               *)
(***************************************************************************)
\* cxx::setKindAndSpelling(t, kind)
setKindAndSpelling(L, kind) ==
    [L EXCEPT !.t.kind = kind, !.t.spelling = defaultSpelling(kind)]

\* t.setKind(kind).setSpelling(sp) with TF_ALTERNATE added to the flags
setAlternate(L, kind, sp) ==
    [L EXCEPT !.t.kind = kind, !.t.spelling = sp,
              !.t.flags = @ \cup {TF_ALTERNATE}]

\* a token rule the model does not cover was entered
notModelled(L) == [L EXCEPT !.unmodelled = TRUE]

\* the names of the preprocessor directives
N_define       == <<"d", "e", "f", "i", "n", "e">>
N_undef        == <<"u", "n", "d", "e", "f">>
N_if           == <<"i", "f">>
N_ifdef        == <<"i", "f", "d", "e", "f">>
N_ifndef       == <<"i", "f", "n", "d", "e", "f">>
N_elif         == <<"e", "l", "i", "f">>
N_else         == <<"e", "l", "s", "e">>
N_endif        == <<"e", "n", "d", "i", "f">>
N_line         == <<"l", "i", "n", "e">>
N_error        == <<"e", "r", "r", "o", "r">>
N_warning      == <<"w", "a", "r", "n", "i", "n", "g">>
N_pragma       == <<"p", "r", "a", "g", "m", "a">>
N_include      == <<"i", "n", "c", "l", "u", "d", "e">>
N_include_next ==
    <<"i", "n", "c", "l", "u", "d", "e", "_", "n", "e", "x", "t">>

\* ppDirective, case 'p' (ends with break)
ppCaseP(name, k) == IF name = N_pragma THEN "PP_PRAGMA" ELSE k

\* ppDirective, case 'l' (no break: runs on into case 'p')
ppCaseL(name, k) == ppCaseP(name, IF name = N_line THEN "PP_LINE" ELSE k)

\* ppDirective, case 'i' (no break after the inner switch: runs on into 'l')
ppCaseI(name, k) ==
    ppCaseL(name,
            CASE name[2] = "f" ->
                   IF Len(name) = 2 THEN "PP_IF"
                   ELSE IF name = N_ifdef THEN "PP_IFDEF"
                   ELSE IF name = N_ifndef THEN "PP_IFNDEF"
                   ELSE k
              [] name[2] = "n" ->
                   IF Len(name) < 7 \/ SubSeq(name, 1, 7) # N_include THEN k
                   ELSE IF Len(name) = 7 THEN "PP_INCLUDE"
                   ELSE IF name = N_include_next THEN "PP_INCLUDE_NEXT"
                   ELSE k
              [] OTHER -> k)

\* ppDirective, case 'e' (no break after the inner switch: runs on into 'i')
ppCaseE(name, k) ==
    ppCaseI(name,
            CASE name[2] = "l" ->
                   IF Len(name) # 4 THEN k
                   ELSE IF name = N_elif THEN "PP_ELIF"
                   ELSE IF name = N_else THEN "PP_ELSE"
                   ELSE k
              [] name[2] = "n" -> IF name = N_endif THEN "PP_ENDIF" ELSE k
              [] name[2] = "r" -> IF name = N_error THEN "PP_ERROR" ELSE k
              [] OTHER -> k)

\* ppDirective: the switch on name[0], entered when n >= 2
ppDirectiveKind(name, k) ==
    CASE name[1] = "d" -> IF name = N_define THEN "PP_DEFINE" ELSE k
      [] name[1] = "e" -> ppCaseE(name, k)
      [] name[1] = "i" -> ppCaseI(name, k)
      [] name[1] = "l" -> ppCaseL(name, k)
      [] name[1] = "p" -> ppCaseP(name, k)
      [] name[1] = "u" -> IF name = N_undef THEN "PP_UNDEF" ELSE k
      [] name[1] = "w" -> IF name = N_warning THEN "PP_WARNING" ELSE k
      [] OTHER -> k

RECURSIVE ppReadName(_)
\* ppDirective: for (c = read(); isualpha(c) && c < 0x80; c = read())
ppReadName(L) ==
    LET Got(L1) == IF isualpha(L1.ret)
                   THEN ppReadName([L1 EXCEPT !.tmp = Append(@, L1.ret)])
                   ELSE L1
    IN  Got(read(L))

\* CXXLexer::ppDirective(t)
ppDirective(L) ==
    LET Flagged(L2) ==
            [L2 EXCEPT !.t.flags = @ \cup {TF_PREPROCESS},
                       !.t.spelling = defaultSpelling(L2.t.kind),
                       !.ntf = @ \cup {TF_PREPROCESS}]
        Decided(L1, n, k) ==
            Flagged(IF ~isPreprocessorDirective(k)
                    THEN [backtrack(L1, n) EXCEPT
                              !.t.kind = "PP_NULL",
                              !.diags = Append(@, "WARNING")]
                    ELSE [L1 EXCEPT !.t.kind = k])
        Named(L1) ==
            Decided(L1, Len(L1.tmp),
                    IF Len(L1.tmp) >= 2
                    THEN ppDirectiveKind(L1.tmp, L1.t.kind)
                    ELSE L1.t.kind)
    IN  Named(ppReadName([L EXCEPT !.tmp = <<>>]))

\* CXXLexer::isValidIdentChar(c), on the characters of the model
isValidIdentChar(o, ch) ==
    \/ isualpha(ch) \/ isudigit(ch) \/ ch = "_"
    \/ (ch = "$" /\ have(o, {IDENTIFIER_DOLLARS}))

\* CXXLexer::isValidInitialIdentChar(c)
isValidInitialIdentChar(o, ch) == isValidIdentChar(o, ch) /\ ~isudigit(ch)

\* the keywords of addC89Keywords (part of every dialect's table) that the
\* texts of this model can spell
KeywordTable ==
    {[spelling |-> <<"i", "f">>, kind |-> "KW_IF"],
     [spelling |-> <<"e", "l", "s", "e">>, kind |-> "KW_ELSE"],
     [spelling |-> <<"d", "o">>, kind |-> "KW_DO"]}

RECURSIVE identBody(_)
\* identifierOrKeyword: the loop that reads the rest of the name
identBody(L) ==
    LET Next2(L2, ch) ==
            IF ch = BSL /\ L2.ret \in {"u", "U"} /\ have(L.o, {UCNS})
            THEN notModelled(L2)
            ELSE IF isValidIdentChar(L.o, ch)
            THEN identBody([L2 EXCEPT !.tmp = Append(@, ch)])
            ELSE backtrack(L2, 1)
        Got(L1) == Next2(IF L1.ret = BSL THEN peek(L1) ELSE L1, L1.ret)
    IN  Got(read(L))

\* CXXLexer::identifierOrKeyword(t)
identifierOrKeyword(L) ==
    LET Keyword(L1, e) ==
            [L1 EXCEPT !.t.kind = e.kind, !.t.spelling = e.spelling,
                       !.t.flags = IF isPunctuation(e.kind)
                                   THEN @ \cup {TF_ALTERNATE} ELSE @]
        Looked(L1, kw) ==
            IF kw # {} THEN Keyword(L1, CHOOSE e \in kw : TRUE)
            ELSE [L1 EXCEPT !.t.kind = "IDENTIFIER", !.t.spelling = L1.tmp]
        Named(L1) == Looked(L1, {e \in KeywordTable : e.spelling = L1.tmp})
    IN  Named(identBody([L EXCEPT !.tmp = <<lastRead(L)>>]))

RECURSIVE wsBody(_, _)
\* whitespace: while (isuspace(peek()) && (peek() != U'\n'))
wsBody(L, keep) ==
    LET Kept(R) == wsBody(IF keep THEN [R EXCEPT !.tmp = Append(@, R.ret)]
                          ELSE R, keep)
        Seen(P) == IF isuspace(P.ret) /\ P.ret # NL THEN Kept(read(P)) ELSE P
    IN  Seen(peek(L))

\* CXXLexer::whitespace(t)
whitespace(L) ==
    LET Spelled(L3, keep) ==
            IF keep THEN [L3 EXCEPT !.t.spelling = L3.tmp] ELSE L3
        Rest(L1, keep) ==
            IF lastRead(L) = NL THEN [L1 EXCEPT !.t.spelling = <<NL>>]
            ELSE Spelled(wsBody(IF keep
                                THEN [L1 EXCEPT !.tmp = <<lastRead(L)>>]
                                ELSE [L1 EXCEPT !.t.spelling = <<" ">>],
                                keep),
                         keep)
    IN  Rest([L EXCEPT !.t.kind = "WHITESPACE"], have(L.o, {KEEP_SPACE}))

RECURSIVE commentBody(_, _, _)
\* comment: the loop that reads up to the end of the comment
commentBody(L, is_bcpl, keep) ==
    LET Keep(R) == IF keep THEN [R EXCEPT !.tmp = Append(@, R.ret)] ELSE R
        LineSeen(P) ==
            IF inputEof(L) \/ P.ret = NL THEN P
            ELSE commentBody(Keep(read(P)), is_bcpl, keep)
        StarSeen(P, ch) ==
            IF ch = "*" /\ P.ret = "/" THEN Keep(read(P))
            ELSE commentBody(P, is_bcpl, keep)
        Kept(R1, ch) == StarSeen(IF ch = "*" THEN peek(R1) ELSE R1, ch)
        BlockGot(R) ==
            IF R.ret = EOFC THEN [R EXCEPT !.diags = Append(@, "ERROR")]
            ELSE Kept(Keep(R), R.ret)
    IN  IF is_bcpl THEN LineSeen(IF inputEof(L) THEN L ELSE peek(L))
        ELSE BlockGot(read(L))

\* CXXLexer::comment(t)
comment(L) ==
    LET Spelled(L4, keep) ==
            IF keep THEN [L4 EXCEPT !.t.spelling = L4.tmp] ELSE L4
        Opened(L3, keep) ==
            Spelled(commentBody(L3, lastRead(L3) = "/", keep), keep)
        Start(P, L1) == [P EXCEPT !.tmp = <<lastRead(L1), P.ret>>]
        Begin(L1, keep) ==
            Opened(read(IF keep THEN Start(peek(L1), L1) ELSE L1), keep)
    IN  Begin([L EXCEPT !.t.kind = "COMMENT"], have(L.o, {KEEP_COMMENTS}))

\* readToken, case U'#'
lexHash(L) ==
    LET Hash(H) ==
            IF ~have(L.o, {NO_PP_DIRECTIVES}) /\ TF_STARTS_LINE \in H.t.flags
            THEN ppDirective(H) ELSE H
        Seen(P) ==
            IF P.ret = "#"
            THEN [setKindAndSpelling(P, "HASHHASH") EXCEPT !.eat = TRUE]
            ELSE Hash(setKindAndSpelling(P, "HASH"))
    IN  Seen(peek(L))

\* readToken, case U'/'
lexSlash(L) ==
    LET Seen(P) ==
            CASE P.ret = "=" ->
                   [setKindAndSpelling(P, "SLASHEQUAL") EXCEPT !.eat = TRUE]
              [] P.ret = "*" -> comment(P)
              [] P.ret = "/" /\ have(L.o, {LINE_COMMENTS}) -> comment(P)
              [] OTHER -> setKindAndSpelling(P, "SLASH")
    IN  Seen(peek(L))

\* variant of lexLessColon that un-reads one character, not two, before LESS
lexLessColon_ShortBacktrack(P) ==
    LET Square(L1) ==
            pushClosingToken(setAlternate(L1, "LSQUARE", <<"<", ":">>),
                             "RSQUARE")
        Third(P3) ==
            IF P3.ret \in {":", ">"} THEN Square(backtrack(P3, 1))
            ELSE pushClosingToken(
                     setKindAndSpelling(backtrack(P3, 1), "LESS"), "GREATER")
        Second(P2) ==
            IF P2.ret = ":" THEN Third(peek(read(P2))) ELSE Square(P2)
        Colon(R) ==
            IF cxx(P.o.languages_) >= CXX11 THEN Second(peek(R))
            ELSE Square(R)
    IN  Colon(read(P))

\* readToken, case U'<', inner case U':' with DIGRAPHS on
lexLessColon(P) ==
    LET Square(L1) ==
            pushClosingToken(setAlternate(L1, "LSQUARE", <<"<", ":">>),
                             "RSQUARE")
        Third(P3) ==
            IF P3.ret \in {":", ">"} THEN Square(backtrack(P3, 1))
            ELSE pushClosingToken(
                     setKindAndSpelling(backtrack(P3, 2), "LESS"), "GREATER")
        Second(P2) ==
            IF P2.ret = ":" THEN Third(peek(read(P2))) ELSE Square(P2)
        Colon(R) ==
            IF cxx(P.o.languages_) >= CXX11 THEN Second(peek(R))
            ELSE Square(R)
    IN  Colon(read(P))

\* readToken, case U'<'
lexLess(L) ==
    LET Less(P) == pushClosingToken(setKindAndSpelling(P, "LESS"), "GREATER")
        Shift(P2) ==
            IF P2.ret = "="
            THEN [setKindAndSpelling(P2, "LSHIFTEQUAL") EXCEPT !.eat = TRUE]
            ELSE setKindAndSpelling(P2, "LSHIFT")
        Seen(P) ==
            CASE P.ret = "<" -> Shift(peek(read(P)))
              [] P.ret = "=" ->
                   [setKindAndSpelling(P, "LESSEQUAL") EXCEPT !.eat = TRUE]
              [] P.ret = "%" /\ have(L.o, {DIGRAPHS}) ->
                   [pushClosingToken(setAlternate(P, "LBRACE", <<"<", "%">>),
                                     "RBRACE") EXCEPT !.eat = TRUE]
              [] P.ret = ":" /\ have(L.o, {DIGRAPHS}) -> lexLessColon(P)
              [] OTHER -> Less(P)
    IN  Seen(peek(L))

\* variant of markSplitable that does not look at the C++ dialect
markSplitable_AnyDialect(L) ==
    IF nextClosingTokenIs(L, "GREATER")
    THEN [L EXCEPT !.t.flags = @ \cup {TF_SPLITABLE}]
    ELSE L

\* readToken, case U'>': the SPLITABLE decision made for >>, >>= and >=
markSplitable(L) ==
    IF nextClosingTokenIs(L, "GREATER") /\ cxx(L.o.languages_) >= CXX11
    THEN [L EXCEPT !.t.flags = @ \cup {TF_SPLITABLE}]
    ELSE L

\* variant of lexGreater in which >= closes an open < as > does
lexGreater_EqualCloses(L) ==
    LET Shift(P2) ==
            markSplitable(
                IF P2.ret = "="
                THEN [setKindAndSpelling(P2, "RSHIFTEQUAL") EXCEPT !.eat = TRUE]
                ELSE setKindAndSpelling(P2, "RSHIFT"))
        Seen(P) ==
            CASE P.ret = ">" -> Shift(peek(read(P)))
              [] P.ret = "=" ->
                   [popClosingTokenIf(
                        markSplitable(setKindAndSpelling(P, "GREATEREQUAL")),
                        "GREATER")
                        EXCEPT !.eat = TRUE]
              [] OTHER ->
                   popClosingTokenIf(setKindAndSpelling(P, "GREATER"),
                                     "GREATER")
    IN  Seen(peek(L))

\* readToken, case U'>'
lexGreater(L) ==
    LET Shift(P2) ==
            markSplitable(
                IF P2.ret = "="
                THEN [setKindAndSpelling(P2, "RSHIFTEQUAL") EXCEPT !.eat = TRUE]
                ELSE setKindAndSpelling(P2, "RSHIFT"))
        Seen(P) ==
            CASE P.ret = ">" -> Shift(peek(read(P)))
              [] P.ret = "=" ->
                   [markSplitable(setKindAndSpelling(P, "GREATEREQUAL"))
                        EXCEPT !.eat = TRUE]
              [] OTHER ->
                   popClosingTokenIf(setKindAndSpelling(P, "GREATER"),
                                     "GREATER")
    IN  Seen(peek(L))

\* readToken, case U'%'
lexPercent(L) ==
    LET Hash(H) ==
            IF ~have(L.o, {NO_PP_DIRECTIVES}) /\ TF_STARTS_LINE \in H.t.flags
            THEN ppDirective(H) ELSE H
        OneHash(B) ==
            Hash([B EXCEPT !.t.kind = "HASH", !.t.spelling = <<"%", ":">>])
        Fourth(P3) ==
            IF P3.ret = ":"
            THEN [P3 EXCEPT !.t.kind = "HASHHASH",
                            !.t.spelling = <<"%", ":", "%", ":">>,
                            !.eat = TRUE]
            ELSE OneHash(backtrack(P3, 1))
        Third(P2) ==
            IF P2.ret = "%" THEN Fourth(peek(read(P2))) ELSE OneHash(P2)
        Seen(P) ==
            CASE P.ret = "=" ->
                   [setKindAndSpelling(P, "PERCENTEQUAL") EXCEPT !.eat = TRUE]
              [] P.ret = ">" /\ have(L.o, {DIGRAPHS}) ->
                   [popClosingTokenIf(
                        setAlternate(P, "RBRACE", <<"%", ">">>), "RBRACE")
                        EXCEPT !.eat = TRUE]
              [] P.ret = ":" /\ have(L.o, {DIGRAPHS}) ->
                   Third(peek(read([P EXCEPT !.t.flags =
                                                 @ \cup {TF_ALTERNATE}])))
              [] OTHER -> setKindAndSpelling(P, "PERCENT")
    IN  Seen(peek(L))

\* readToken, case U'='
lexEqual(L) ==
    LET Seen(P) ==
            IF P.ret = "="
            THEN [setKindAndSpelling(P, "EQUALEQUAL") EXCEPT !.eat = TRUE]
            ELSE setKindAndSpelling(P, "EQUAL")
    IN  Seen(peek(L))

\* readToken, case U':'
lexColon(L) ==
    LET Seen(P) ==
            CASE P.ret = ">" /\ have(L.o, {DIGRAPHS}) ->
                   [popClosingTokenIf(
                        setAlternate(P, "RSQUARE", <<":", ">">>), "RSQUARE")
                        EXCEPT !.eat = TRUE]
              [] P.ret = ":" /\ cxx(L.o.languages_) # 0 ->
                   [setKindAndSpelling(P, "COLONCOLON") EXCEPT !.eat = TRUE]
              [] OTHER -> setKindAndSpelling(P, "COLON")
    IN  Seen(peek(L))

\* readToken, the cases of the bracket characters
lexBracket(L, ch) ==
    CASE ch = "{" -> pushClosingToken(setKindAndSpelling(L, "LBRACE"), "RBRACE")
      [] ch = "}" -> popClosingTokenIf(setKindAndSpelling(L, "RBRACE"), "RBRACE")
      [] ch = "(" -> pushClosingToken(setKindAndSpelling(L, "LPAREN"), "RPAREN")
      [] ch = ")" -> popClosingTokenIf(setKindAndSpelling(L, "RPAREN"), "RPAREN")
      [] ch = "[" -> pushClosingToken(setKindAndSpelling(L, "LSQUARE"), "RSQUARE")
      [] ch = "]" -> popClosingTokenIf(setKindAndSpelling(L, "RSQUARE"), "RSQUARE")

\* readToken, case U'\\': only a UCN can follow; anything else stays TOK_NULL
lexBackslash(L) ==
    LET Seen(P) ==
            IF P.ret \in {"u", "U"} /\ have(L.o, {UCNS}) THEN notModelled(P)
            ELSE P
    IN  Seen(peek(L))

(***************************************************************************)
(* CXXLexer: numeric literals                                              *)
(***************************************************************************)
\* udigitval(c) of the utility library as the lexer relies on it: the value
\* of a decimal digit, and for any other character (eof included) a value
\* above every digit, so that the tests `<= 1' and `< 8' fail for it
udigitval(ch) == IF isudigit(ch) THEN uxdigitval(ch) ELSE 255

\* toulower(c), on the letters tested with it
toulower(ch) == CASE ch = "L" -> "l" [] ch = "U" -> "u" [] OTHER -> ch

\* utf8_append(tmp_spelling_buf_, read())
appendRead(L) ==
    LET Got(R) == [R EXCEPT !.tmp = Append(@, R.ret)]
    IN  Got(read(L))

\* utf8_append(tmp_spelling_buf_, lastRead())
appendLastRead(L) == [L EXCEPT !.tmp = Append(@, lastRead(L))]

\* t.setKind(kind); t.setSpelling(store(tmp_spelling_buf_))
setKindAndStore(L, kind) == [L EXCEPT !.t.kind = kind, !.t.spelling = L.tmp]

\* if (peek() is one of chars) utf8_append(tmp_spelling_buf_, read())
appendIfNext(L, chars) ==
    IF peek(L).ret \in chars THEN appendRead(peek(L)) ELSE peek(L)

\* checkForIntegerSuffix: if (options_.have(LONG_LONG) && (peek() ==
\* lastRead())) utf8_append(tmp_spelling_buf_, read())
suffixLongLong(L) ==
    appendIfNext(L, IF have(L.o, {LONG_LONG}) THEN {lastRead(L)} ELSE {})

\* checkForIntegerSuffix: the switch on peek()
suffixSwitch(P) ==
    CASE P.ret \in {"u", "U"} ->
           IF toulower(peek(appendRead(P)).ret) = "l"
           THEN suffixLongLong(appendRead(peek(appendRead(P))))
           ELSE peek(appendRead(P))
      [] P.ret \in {"l", "L"} ->
           appendIfNext(suffixLongLong(appendRead(P)), {"u", "U"})
      [] OTHER -> P

\* CXXLexer::checkForIntegerSuffix()
checkForIntegerSuffix(L) == suffixSwitch(peek(L))

\* CXXLexer::floatingLiteral(t): the suffix and the token
floatSuffix(L) ==
    setKindAndStore(appendIfNext(L, {"F", "f", "L", "l"}), "FLOAT_LITERAL")

RECURSIVE floatBody(_, _, _)
\* floatingLiteral: the switch on ch = peek() in the loop
floatSwitch(P, int_part, exp_part) ==
    CASE P.ret = "." ->
           IF int_part THEN floatBody(appendRead(P), FALSE, exp_part)
           ELSE floatSuffix(P)
      [] P.ret \in {"E", "e"} ->
           IF exp_part THEN floatSuffix(P)
           ELSE floatBody(appendIfNext(appendRead(P), {"+", "-"}),
                          int_part, TRUE)
      [] OTHER ->
           IF isudigit(P.ret)
           THEN floatBody(appendRead(P), int_part, exp_part)
           ELSE floatSuffix(P)

\* CXXLexer::floatingLiteral(t): the loop while (again)
floatBody(L, int_part, exp_part) == floatSwitch(peek(L), int_part, exp_part)

\* CXXLexer::floatingLiteral(t)
floatingLiteral(L) == floatBody(L, lastRead(L) # ".", FALSE)

RECURSIVE binaryBody(_)
\* binaryLiteral: the tests on ch = peek() in the loop
binarySwitch(P) ==
    IF udigitval(P.ret) <= 1 THEN binaryBody(appendRead(P))
    ELSE IF P.ret # "'" THEN P
    ELSE IF peek(read(P)).ret \in {"0", "1"}
    THEN binaryBody(appendLastRead(peek(read(P))))
    ELSE backtrack(peek(read(P)), 1)

\* CXXLexer::binaryLiteral(t): the loop
binaryBody(L) == binarySwitch(peek(L))

\* CXXLexer::binaryLiteral(t)
binaryLiteral(L) ==
    setKindAndStore(checkForIntegerSuffix(binaryBody(appendLastRead(L))),
                    "BIN_INT_LITERAL")

RECURSIVE hexBody(_)
\* hexadecimalLiteral: after a digit was appended, with the next character
\* peeked: the grouping separator
hexDigit(P) ==
    IF P.ret # "'" THEN hexBody(P)
    ELSE hexBody(IF isuxdigit(peek(read(P)).ret)
                 THEN appendLastRead(peek(read(P)))
                 ELSE backtrack(peek(read(P)), 1))

\* hexadecimalLiteral: the test of the loop, with the next character peeked
hexSwitch(P) == IF isuxdigit(P.ret) THEN hexDigit(peek(appendRead(P))) ELSE P

\* CXXLexer::hexadecimalLiteral(t): the loop
hexBody(L) == hexSwitch(peek(L))

\* CXXLexer::hexadecimalLiteral(t)
hexadecimalLiteral(L) ==
    setKindAndStore(checkForIntegerSuffix(hexBody(appendLastRead(L))),
                    "HEX_INT_LITERAL")

RECURSIVE numericBody(_, _)
\* numericLiteral: if (isudigit(peek())) at the end of the loop body, with the
\* character peeked; else the loop ends and what follows it is done
numericDigit(P, octal) ==
    IF isudigit(P.ret)
    THEN numericBody(appendRead(P), octal /\ udigitval(P.ret) < 8)
    ELSE setKindAndStore(checkForIntegerSuffix(P),
                         IF octal THEN "OCT_INT_LITERAL"
                         ELSE "DEC_INT_LITERAL")

\* numericLiteral: the switch on peek() in the loop
numericSwitch(P, octal) ==
    CASE P.ret \in {".", "E", "e"} -> floatingLiteral(appendRead(P))
      [] P.ret = "'" ->
           numericDigit(peek(IF isudigit(peek(read(P)).ret)
                             THEN appendLastRead(peek(read(P)))
                             ELSE backtrack(peek(read(P)), 1)),
                        octal)
      [] OTHER -> numericDigit(peek(P), octal)

\* CXXLexer::numericLiteral(t): the loop while (true) and what follows it
numericBody(L, octal) == numericSwitch(peek(L), octal)

\* numericLiteral: after 0b or 0x was read, with the next character peeked:
\* the literal when a digit follows, else backtrack() and return
numericPrefixed(P, binary) ==
    CASE binary /\ udigitval(P.ret) <= 1 -> binaryLiteral(P)
      [] ~binary /\ isuxdigit(P.ret) -> hexadecimalLiteral(P)
      [] OTHER -> backtrack(P, 1)

\* numericLiteral: the switch on peek() after a leading 0
numericZero(P) ==
    CASE P.ret \in {"b", "B"} /\ have(P.o, {BINARY_LITERALS}) ->
           numericPrefixed(peek(read(P)), TRUE)
      [] P.ret \in {"x", "X"} -> numericPrefixed(peek(read(P)), FALSE)
      [] P.ret = "." -> floatingLiteral(P)
      [] OTHER -> numericBody(P, TRUE)

\* CXXLexer::numericLiteral(t)
numericLiteral(L) ==
    CASE lastRead(L) = "0" ->
           numericZero(peek([L EXCEPT !.tmp = <<lastRead(L)>>]))
      [] lastRead(L) = "." ->
           floatingLiteral([L EXCEPT !.tmp = <<lastRead(L)>>])
      [] OTHER -> numericBody([L EXCEPT !.tmp = <<lastRead(L)>>], FALSE)

\* readToken, the default case
lexDefault(L, ch) ==
    IF isuspace(ch) THEN whitespace(L)
    ELSE IF isudigit(ch) THEN numericLiteral(L)
    ELSE IF isValidInitialIdentChar(L.o, ch) THEN identifierOrKeyword(L)
    ELSE L

\* Token::reset(): the token is reset to EOF; the call is recorded
reset(L) ==
    [L EXCEPT !.t.kind = "EOF", !.t.spelling = <<>>, !.reset = TRUE]

\* MAX_DELIMITER_LEN of rawStringLiteral
MAX_DELIMITER_LEN == 16

RECURSIVE rawContent(_, _, _, _)
\* rawStringLiteral: `read string contents'; L.tmp is tmp_spelling_buf_,
\* d2 is delimiter2_len and tent is tentative_spelling_len
rawContent(L, delimiter, d2, tent) ==
    LET Got(R) ==
            LET Appended == [R EXCEPT !.tmp = Append(@, R.ret)]
            IN  CASE R.ret = EOFC -> emit(R, "ERROR")
                  [] R.ret = ")" ->
                       IF d2 < 0
                       THEN rawContent(Appended, delimiter, 0, Len(R.tmp))
                       ELSE rawContent(Appended, delimiter, -1, tent)
                  [] R.ret = "\"" ->
                       IF d2 = Len(delimiter)
                       THEN [R EXCEPT !.tmp = SubSeq(@, 1, tent)]
                       ELSE rawContent(Appended, delimiter, d2, tent)
                  [] OTHER ->
                       IF d2 >= 0
                       THEN IF d2 < Len(delimiter) /\ delimiter[d2 + 1] = R.ret
                            THEN rawContent(Appended, delimiter, d2 + 1, tent)
                            ELSE rawContent(Appended, delimiter, -1, tent)
                       ELSE rawContent(Appended, delimiter, d2, tent)
    IN  Got(base_read(L))

RECURSIVE rawDelimiter(_, _)
\* rawStringLiteral: `read optional delimiter between '"' and '(''; gives
\* the lexer with L.ok telling whether the contents are to be read, and the
\* delimiter in L.tmp
rawDelimiter(L, delimiter) ==
    LET Got(R) ==
            CASE R.ret = EOFC ->
                   [reset(emit(R, "ERROR")) EXCEPT !.ok = FALSE]
              [] R.ret = "(" -> [R EXCEPT !.ok = TRUE, !.tmp = delimiter]
              [] R.ret \in {BSL, ")"} \/ isuspace(R.ret) ->
                   rawDelimiter(read(emit(backtrack(R, 1), "ERROR")),
                                delimiter)
              [] OTHER ->
                   IF Len(delimiter) >= MAX_DELIMITER_LEN
                   THEN [reset(emit(R, "FATAL_ERROR")) EXCEPT !.ok = FALSE]
                   ELSE rawDelimiter(R, Append(delimiter, R.ret))
    IN  Got(read(L))

\* CXXLexer::rawStringLiteral(t)
rawStringLiteral(L) ==
    LET Spelled(C) == [C EXCEPT !.t.spelling = C.tmp]
        Contents(D) ==
            IF D.ok THEN Spelled(rawContent([D EXCEPT !.tmp = <<>>],
                                            D.tmp, -1, 0))
            ELSE D
    IN  Contents(rawDelimiter(L, <<>>))

\* readToken, case U'R' (the outermost one)
lexR(L) ==
    LET Seen(P) ==
            IF P.ret = "\""
            THEN rawStringLiteral([read(P) EXCEPT !.t.kind = "STR_LITERAL"])
            ELSE identifierOrKeyword(P)
    IN  Seen(peek(L))

(***************************************************************************)
(* CXXLexer: string and character literals                                 *)
(***************************************************************************)
\* a value of type char (eight bits, signed) as the character appended to
\* the spelling: -1 is std::char_traits<char>::eof(), any other value is
\* named by its code
charValue(v) ==
    LET narrow == ((v + 128) % 256) - 128
    IN  IF narrow = -1 THEN EOFC ELSE CodePoint(narrow)

\* CXXLexer::octalEscapeSequence(); the value returned is in L.ret
octalEscapeSequence(L) ==
    LET Third(R, value) ==
            IF udigitval(R.ret) < 8
            THEN [R EXCEPT !.ret = charValue(value * 8 + udigitval(R.ret))]
            ELSE [backtrack(R, 1) EXCEPT !.ret = charValue(value)]
        Second(R, value) ==
            IF udigitval(R.ret) < 8
            THEN Third(read(R), value * 8 + udigitval(R.ret))
            ELSE [backtrack(R, 1) EXCEPT !.ret = charValue(value)]
        First(R) ==
            IF udigitval(R.ret) < 8
            THEN Second(read(R), udigitval(R.ret))
            ELSE [backtrack(R, 1) EXCEPT !.ret = EOFC]
    IN  First(read(L))

\* CXXLexer::hexEscapeSequence(); xdigitval() is negative for a character
\* that is no hexadecimal digit
hexEscapeSequence(L) ==
    LET Second(R, value) ==
            IF isuxdigit(R.ret)
            THEN [R EXCEPT !.ret = charValue(value * 16 + uxdigitval(R.ret))]
            ELSE [backtrack(R, 1) EXCEPT !.ret = charValue(value)]
        First(R) ==
            IF isuxdigit(R.ret) THEN Second(read(R), uxdigitval(R.ret))
            ELSE [backtrack(R, 1) EXCEPT !.ret = EOFC]
    IN  First(read(L))

\* the characters the simple escape sequences stand for
escapeChar(ch) ==
    CASE ch = "a" -> CodePoint(7)
      [] ch = "b" -> CodePoint(8)
      [] ch = "f" -> "\f"
      [] ch = "n" -> NL
      [] ch = "r" -> "\r"
      [] ch = "t" -> "\t"
      [] ch = "v" -> CodePoint(11)

RECURSIVE stringBody(_, _)
\* stringOrCharLiteral: the loop over the characters up to the delimiter
stringBody(L, delimiter) ==
    LET Appended(R) ==
            stringBody([R EXCEPT !.tmp = Append(@, R.ret)], delimiter)
        HexOrX(P) ==
            IF isuxdigit(P.ret) THEN hexEscapeSequence(P)
            ELSE [P EXCEPT !.ret = "x"]
        Escaped(R) ==
            CASE R.ret \in {"'", "\"", "?", BSL} -> Appended(R)
              [] R.ret \in {"a", "b", "f", "n", "r", "t", "v"} ->
                   Appended([R EXCEPT !.ret = escapeChar(R.ret)])
              [] R.ret = "x" -> Appended(HexOrX(peek(R)))
              [] R.ret \in {"u", "U"} ->
                   IF ~have(L.o, {UCNS}) THEN Appended(R)
                   ELSE Appended(ucn(backtrack(R, 1)))
              [] OTHER ->
                   IF udigitval(R.ret) < 8
                   THEN Appended(octalEscapeSequence(backtrack(R, 1)))
                   ELSE Appended(R)
        Got(R) ==
            CASE R.ret = delimiter -> R
              [] R.ret = EOFC \/ R.ret = NL -> emit(R, "ERROR")
              [] R.ret # BSL ->
                   stringBody([R EXCEPT !.tmp = Append(@, lastRead(R))],
                              delimiter)
              [] OTHER -> Escaped(read(R))
    IN  Got(read(L))

\* CXXLexer::stringOrCharLiteral(t)
stringOrCharLiteral(L) ==
    LET Spelled(R) == [R EXCEPT !.t.spelling = R.tmp]
    IN  Spelled(stringBody([L EXCEPT !.tmp = <<>>], lastRead(L)))

\* readToken: (options_.c() >= C11) || (options_.cxx() >= CXX11)
unicodeLiterals(o) == c(o.languages_) >= C11 \/ cxx(o.languages_) >= CXX11

\* readToken: a prefix followed by R; the raw string or, the R given back
\* (n characters are given back when no raw string follows), an identifier
rawAfterPrefix(L, kind, anyDialect, n) ==
    IF /\ peek(read(L)).ret = "\""
       /\ anyDialect \/ cxx(L.o.languages_) >= CXX11
    THEN rawStringLiteral([read(peek(read(L))) EXCEPT !.t.kind = kind])
    ELSE identifierOrKeyword(backtrack(peek(read(L)), n))

\* read(); t.setKind(kind); stringOrCharLiteral(t)
prefixedLiteral(P, kind) ==
    stringOrCharLiteral([read(P) EXCEPT !.t.kind = kind])

\* readToken, case U'u': the switch on peek() after u8
littleU8Switch(P) ==
    CASE P.ret = "'" /\ have(P.o, {UTF8_CHAR_LITERALS}) ->
           prefixedLiteral(P, "U8_CHAR_LITERAL")
      [] P.ret = "\"" /\ unicodeLiterals(P.o) ->
           prefixedLiteral(P, "U8_STR_LITERAL")
      [] P.ret = "\"" /\ ~unicodeLiterals(P.o) -> identifierOrKeyword(P)
      [] P.ret = "R" -> rawAfterPrefix(P, "U8_STR_LITERAL", FALSE, 2)
      [] OTHER -> identifierOrKeyword(backtrack(P, 1))

\* readToken, case U'u'
lexLittleU(L) ==
    CASE peek(L).ret = "8" -> littleU8Switch(peek(read(peek(L))))
      [] peek(L).ret = "R" ->
           rawAfterPrefix(peek(L), "U16_STR_LITERAL", FALSE, 1)
      [] peek(L).ret = "\"" /\ unicodeLiterals(L.o) ->
           prefixedLiteral(peek(L), "U16_STR_LITERAL")
      [] peek(L).ret = "'" /\ unicodeLiterals(L.o) ->
           prefixedLiteral(peek(L), "U16_CHAR_LITERAL")
      [] peek(L).ret = "'" /\ ~unicodeLiterals(L.o) -> peek(L)
      [] OTHER -> identifierOrKeyword(peek(L))

\* readToken, case U'U'
lexBigU(L) ==
    CASE peek(L).ret \in {"\"", "'"} /\ unicodeLiterals(L.o) ->
           prefixedLiteral(peek(L),
                           IF peek(L).ret = "'" THEN "U32_CHAR_LITERAL"
                           ELSE "U32_STR_LITERAL")
      [] peek(L).ret \in {"\"", "'"} /\ ~unicodeLiterals(L.o) -> peek(L)
      [] peek(L).ret = "R" ->
           rawAfterPrefix(peek(L), "U32_STR_LITERAL", FALSE, 1)
      [] OTHER -> identifierOrKeyword(peek(L))

\* readToken, case U'L'
lexBigL(L) ==
    CASE peek(L).ret \in {"\"", "'"} ->
           prefixedLiteral(peek(L), IF peek(L).ret = "'" THEN "WCHAR_LITERAL"
                                    ELSE "WSTR_LITERAL")
      [] peek(L).ret = "R" -> rawAfterPrefix(peek(L), "WSTR_LITERAL", TRUE, 1)
      [] OTHER -> identifierOrKeyword(peek(L))

(***************************************************************************)
(* CXXLexer: the remaining operators                                       *)
(***************************************************************************)
\* setKindAndSpelling(t, kind); eat_next = true
twoChars(L, kind) == [setKindAndSpelling(L, kind) EXCEPT !.eat = TRUE]

\* readToken, case U'.'
lexDot(L) ==
    LET Second(P) ==
            IF P.ret = "." THEN twoChars(P, "ELLIPSIS")
            ELSE setKindAndSpelling(backtrack(P, 1), "DOT")
    IN  IF cxx(L.o.languages_) # 0 /\ peek(L).ret = "*"
        THEN twoChars(peek(L), "DOTSTAR")
        ELSE IF isudigit(peek(L).ret) THEN numericLiteral(peek(L))
        ELSE IF peek(L).ret = "." THEN Second(peek(read(peek(L))))
        ELSE setKindAndSpelling(peek(L), "DOT")

\* readToken, case U'+'
lexPlus(L) ==
    LET Seen(P) ==
            CASE P.ret = "=" -> twoChars(P, "PLUSEQUAL")
              [] P.ret = "+" -> twoChars(P, "PLUSPLUS")
              [] OTHER -> setKindAndSpelling(P, "PLUS")
    IN  Seen(peek(L))

\* readToken, case U'-'
lexMinus(L) ==
    LET Arrow(P) ==
            IF cxx(L.o.languages_) # 0 /\ P.ret = "*"
            THEN twoChars(P, "ARROWSTAR")
            ELSE setKindAndSpelling(P, "ARROW")
        Seen(P) ==
            CASE P.ret = "=" -> twoChars(P, "MINUSEQUAL")
              [] P.ret = "-" -> twoChars(P, "MINUSMINUS")
              [] P.ret = ">" -> Arrow(peek(read(P)))
              [] OTHER -> setKindAndSpelling(P, "MINUS")
    IN  Seen(peek(L))

\* readToken, the cases U'*', U'^' and U'!': the operator or, before =, its
\* assignment form
lexOrEqual(L, kind, withEqual) ==
    LET Seen(P) ==
            IF P.ret = "=" THEN twoChars(P, withEqual)
            ELSE setKindAndSpelling(P, kind)
    IN  Seen(peek(L))

\* readToken, case U'&'
lexAmp(L) ==
    LET Seen(P) ==
            CASE P.ret = "=" -> twoChars(P, "AMPEQUAL")
              [] P.ret = "&" /\ cxx(L.o.languages_) >= CXX11 ->
                   twoChars(P, "AMPAMP")
              [] OTHER -> setKindAndSpelling(P, "AMP")
    IN  Seen(peek(L))

\* readToken, case U'|'
lexPipe(L) ==
    LET Seen(P) ==
            CASE P.ret = "=" -> twoChars(P, "PIPEEQUAL")
              [] P.ret = "|" -> twoChars(P, "PIPEPIPE")
              [] OTHER -> setKindAndSpelling(P, "PIPE")
    IN  Seen(peek(L))

\* readToken, case U'$'
lexDollar(L) ==
    IF have(L.o, {IDENTIFIER_DOLLARS}) THEN identifierOrKeyword(L)
    ELSE setKindAndSpelling(L, "DOLLAR")

\* readToken: the switch on the first character of the token
lexSwitch(L, ch) ==
    CASE ch = "#" -> lexHash(L)
      [] ch = "/" -> lexSlash(L)
      [] ch = "<" -> lexLess(L)
      [] ch = ">" -> lexGreater(L)
      [] ch = "%" -> lexPercent(L)
      [] ch = "=" -> lexEqual(L)
      [] ch = ":" -> lexColon(L)
      [] ch = ";" -> setKindAndSpelling(L, "SEMI")
      [] ch = "," -> setKindAndSpelling(L, "COMMA")
      [] ch = "~" -> setKindAndSpelling(L, "TILDE")
      [] ch = "?" -> setKindAndSpelling(L, "QUESTION")
      [] ch = "_" -> identifierOrKeyword(L)
      [] ch \in {"{", "}", "(", ")", "[", "]"} -> lexBracket(L, ch)
      [] ch = BSL -> lexBackslash(L)
      [] ch = "R" -> lexR(L)
      [] ch = "u" -> lexLittleU(L)
      [] ch = "U" -> lexBigU(L)
      [] ch = "L" -> lexBigL(L)
      [] ch = "\"" -> stringOrCharLiteral([L EXCEPT !.t.kind = "STR_LITERAL"])
      [] ch = "'" -> stringOrCharLiteral([L EXCEPT !.t.kind = "CHAR_LITERAL"])
      [] ch = "." -> lexDot(L)
      [] ch = "+" -> lexPlus(L)
      [] ch = "-" -> lexMinus(L)
      [] ch = "*" -> lexOrEqual(L, "STAR", "STAREQUAL")
      [] ch = "^" -> lexOrEqual(L, "CARET", "CARETEQUAL")
      [] ch = "!" -> lexOrEqual(L, "EXCLAIM", "EXCLAIMEQUAL")
      [] ch = "&" -> lexAmp(L)
      [] ch = "|" -> lexPipe(L)
      [] ch = "$" -> lexDollar(L)
      [] OTHER -> lexDefault(L, ch)

\* CXXLexer::updateNextTokenFlags(t)
updateNextTokenFlags(L) ==
    CASE L.t.kind = "WHITESPACE" ->
           IF lastRead(L) = NL THEN [L EXCEPT !.ntf = @ \ {TF_PREPROCESS}]
           ELSE L
      [] L.t.kind = "EOF" ->
           [L EXCEPT !.ntf = (@ \ {TF_PREPROCESS}) \cup {TF_STARTS_LINE}]
      [] OTHER -> L

\* readToken: if (eat_next) read()
eatNext(L) == IF L.eat THEN read(L) ELSE L

\* readToken: the test for eof and the switch, ch = read() being in .ret
readTokenSwitch(L) ==
    IF L.ret = EOFC THEN setKindAndSpelling(L, "EOF")
    ELSE eatNext(lexSwitch(L, L.ret))

\* CXXLexer::readToken(t); the stream never goes bad in this model
readToken(L) ==
    LET Counted(L2) == updateNextTokenFlags([L2 EXCEPT !.ntok = @ + 1])
    IN  Counted(readTokenSwitch(read([L EXCEPT !.eat = FALSE])))

RECURSIVE lex(_)
\* CXXLexer::lex(t)
lex(L) ==
    LET Skipped(L1) ==
            CASE L1.t.kind = "WHITESPACE" -> ~have(L.o, {KEEP_SPACE})
              [] L1.t.kind = "COMMENT" -> ~have(L.o, {KEEP_COMMENTS})
              [] OTHER -> FALSE
        Got(L1) == IF Skipped(L1) /\ ~L1.fault THEN lex(L1) ELSE L1
    IN  Got(readToken(base_lex(L)))

(***************************************************************************)
(* CXXParser: the hook run where a template list expects its closing >     *)
(***************************************************************************)
\* TokenList::emplace_after(pos, token): a new token right after index i
emplace_after(ts, i, t) == SubSeq(ts, 1, i) \o <<t>> \o SubSeq(ts, i + 1, Len(ts))

\* Token::adjustOffset(n)
adjustOffset(t, n) == [t EXCEPT !.offset = @ + n]

\* the hook with the inserted token left at the offset of the first
processTemplParmArgListEndToken_SameOffset(o, ts, i) ==
    LET first == [ts[i] EXCEPT !.kind = "GREATER", !.spelling = <<">">>]
        Split(new_kind, new_spelling) ==
            IF TF_SPLITABLE \notin ts[i].flags
            THEN [ret |-> FALSE, tokens |-> ts]
            ELSE [ret |-> TRUE,
                  tokens |-> emplace_after([ts EXCEPT ![i] = first], i,
                                 [first EXCEPT !.kind = new_kind,
                                               !.spelling = new_spelling])]
    IN  IF cxx(o.languages_) < CXX11 THEN [ret |-> TRUE, tokens |-> ts]
        ELSE CASE ts[i].kind = "GREATER" -> [ret |-> TRUE, tokens |-> ts]
               [] ts[i].kind = "RSHIFT" -> Split("GREATER", <<">">>)
               [] ts[i].kind = "GREATEREQUAL" -> Split("EQUAL", <<"=">>)
               [] ts[i].kind = "RSHIFTEQUAL" -> Split("GREATEREQUAL", <<">", "=">>)
               [] OTHER -> [ret |-> FALSE, tokens |-> ts]

\* CXXParser::processTemplParmArgListEndToken(state): the token list is ts,
\* state.input() is its i-th token; gives the result and the new list
processTemplParmArgListEndToken(o, ts, i) ==
    LET first == [ts[i] EXCEPT !.kind = "GREATER", !.spelling = <<">">>]
        Split(new_kind, new_spelling) ==
            IF TF_SPLITABLE \notin ts[i].flags
            THEN [ret |-> FALSE, tokens |-> ts]
            ELSE [ret |-> TRUE,
                  tokens |-> emplace_after([ts EXCEPT ![i] = first], i,
                                 adjustOffset([first EXCEPT !.kind = new_kind,
                                                  !.spelling = new_spelling], 1))]
    IN  IF cxx(o.languages_) < CXX11 THEN [ret |-> TRUE, tokens |-> ts]
        ELSE CASE ts[i].kind = "GREATER" -> [ret |-> TRUE, tokens |-> ts]
               [] ts[i].kind = "RSHIFT" -> Split("GREATER", <<">">>)
               [] ts[i].kind = "GREATEREQUAL" -> Split("EQUAL", <<"=">>)
               [] ts[i].kind = "RSHIFTEQUAL" -> Split("GREATEREQUAL", <<">", "=">>)
               [] OTHER -> [ret |-> FALSE, tokens |-> ts]

(***************************************************************************)
(* CXXParser::DeclSpecifier: folding a specifier sequence                  *)
(* A child of the sequence is a record [is, first, single]: the            *)
(* nonterminal it matches, the kind of its first token (the spelling for   *)
(* an identifier) and whether it is that one token only.  A node is named  *)
(* by its index in the sequence; 0 is the null pointer.                    *)
(***************************************************************************)
\* a freshly constructed DeclSpecifier (`new this_t'); diags collects what
\* cxx.emit() is given while the sequence is folded
NewDeclSpecifier ==
    [type_qual |-> {}, sign_spec |-> "NO_SIGN", size_spec |-> "NO_SIZE",
     type_spec |-> "NO_TYPE", sign_spec_node |-> 0, size_spec_node |-> 0,
     type_spec_node |-> 0, diags |-> <<>>, ret |-> TRUE]

\* CXXParser::qualifierForToken
qualifierForToken(kind) ==
    CASE kind = "KW_CONST" -> {"CONST"}
      [] kind = "KW_VOLATILE" -> {"VOLATILE"}
      [] kind = "KW_RESTRICT" -> {"RESTRICT"}
      [] kind = "KW_ATOMIC" -> {"ATOMIC"}
      [] kind = "AMP" -> {"LVAL_REF"}
      [] kind = "AMPAMP" -> {"RVAL_REF"}
      [] OTHER -> {}

\* cxx.emit(Diagnostic::ERROR, node, message...)
cxx_emit(D, at, msg) ==
    [D EXCEPT !.diags = Append(@, [severity |-> "ERROR", at |-> at, msg |-> msg])]

\* addDeclSpecifier: the switch on the first token of a simple type specifier
typeOfToken(spec) ==
    CASE spec.first = "KW_VOID" -> "VOID"
      [] spec.first = "KW_AUTO" -> "AUTO"
      [] spec.first = "KW_DECLTYPE" -> "DECLTYPE"
      [] spec.first = "KW_BOOL" -> "BOOL"
      [] spec.first = "KW_CHAR" -> "CHAR"
      [] spec.first = "KW_CHAR16_T" -> "CHAR16_T"
      [] spec.first = "KW_CHAR32_T" -> "CHAR32_T"
      [] spec.first = "KW_WCHAR_T" -> "WCHAR_T"
      [] spec.first = "KW_INT" -> "INT"
      [] spec.first = "KW_FLOAT" -> "FLOAT"
      [] spec.first = "KW_DOUBLE" -> "DOUBLE"
      [] spec.first \in {"KW_SHORT", "KW_LONG", "KW_SIGNED", "KW_UNSIGNED"}
           -> "NO_TYPE"
      [] spec.first = "nullptr_t" -> "NULLPTR_T"
      [] OTHER -> "OTHER"
sizeOfToken(spec) ==
    CASE spec.first = "KW_SHORT" -> "SHORT"
      [] spec.first = "KW_LONG" -> IF spec.single THEN "LONG" ELSE "LONG_LONG"
      [] OTHER -> "NO_SIZE"
signOfToken(spec) ==
    CASE spec.first = "KW_SIGNED" -> "SIGNED"
      [] spec.first = "KW_UNSIGNED" -> "UNSIGNED"
      [] OTHER -> "NO_SIGN"

\* addDeclSpecifier, `if (type)' with the conflicting specifier taking over
addType_LastWins(D, n, type) ==
    [D EXCEPT !.type_spec = type, !.type_spec_node = n, !.ret = TRUE]

\* addDeclSpecifier, `if (type)': a simple type specifier that names a type
addType(D, n, type) ==
    LET Apply(R, apply) ==
            IF apply THEN [R EXCEPT !.type_spec = type, !.type_spec_node = n]
            ELSE R
        SignError(R) ==
            IF R.sign_spec # "NO_SIGN"
            THEN cxx_emit(R, R.sign_spec_node, "modifier cannot be used with type")
            ELSE R
        SizeError(R, any) ==
            IF R.size_spec # "NO_SIZE" /\ (any \/ R.size_spec # "LONG")
            THEN cxx_emit(R, R.size_spec_node, "modifier cannot be used with type")
            ELSE R
    IN  IF D.type_spec # "NO_TYPE"
        THEN IF D.type_spec_node = n THEN [D EXCEPT !.ret = TRUE]
             ELSE IF type = "OTHER" THEN [D EXCEPT !.ret = FALSE]
             ELSE IF D.type_spec_node = n
             THEN [cxx_emit(D, n, "redundant type specifier") EXCEPT !.ret = TRUE]
             ELSE [cxx_emit(D, n, "conflicts with earlier type specifier")
                       EXCEPT !.ret = TRUE]
        ELSE CASE type = "CHAR" ->
                   IF D.size_spec # "NO_SIZE"
                   THEN [cxx_emit(D, D.size_spec_node,
                                  "modifier cannot be used with type")
                             EXCEPT !.ret = TRUE]
                   ELSE [Apply(D, TRUE) EXCEPT !.ret = TRUE]
               [] type = "INT" -> [Apply(D, TRUE) EXCEPT !.ret = TRUE]
               [] type = "DOUBLE" ->
                   [Apply(SizeError(SignError(D), FALSE),
                          D.sign_spec = "NO_SIGN"
                              /\ D.size_spec \in {"NO_SIZE", "LONG"})
                        EXCEPT !.ret = TRUE]
               [] OTHER ->
                   [Apply(SizeError(SignError(D), TRUE),
                          D.sign_spec = "NO_SIGN" /\ D.size_spec = "NO_SIZE")
                        EXCEPT !.ret = TRUE]

\* addDeclSpecifier, `else if (size)': short, long, long long
addSize(D, n, size) ==
    IF D.size_spec # "NO_SIZE" /\ size # D.size_spec
    THEN [cxx_emit(D, n, "conflicts with earlier modifier") EXCEPT !.ret = TRUE]
    ELSE IF /\ D.type_spec # "NO_TYPE" /\ D.type_spec # "INT"
            /\ ~(size = "LONG" /\ D.type_spec = "DOUBLE")
    THEN [cxx_emit(D, n, "modifier cannot be used with type") EXCEPT !.ret = TRUE]
    ELSE [D EXCEPT !.size_spec = size, !.size_spec_node = n, !.ret = TRUE]

\* variant of addSign that sets the sign whatever the type is
addSign_AnyType(D, n, sign) ==
    [D EXCEPT !.sign_spec = sign, !.sign_spec_node = n, !.ret = TRUE]

\* addDeclSpecifier, `else if (sign)': signed, unsigned
addSign(D, n, sign) ==
    LET Conflict(R) ==
            IF D.sign_spec # "NO_SIGN" /\ sign # D.sign_spec
            THEN cxx_emit(R, n, "conflicts with earlier modifier") ELSE R
        BadType(R) ==
            IF D.type_spec \notin {"NO_TYPE", "INT", "CHAR"}
            THEN cxx_emit(R, n, "modifier cannot be used with type") ELSE R
        apply == /\ ~(D.sign_spec # "NO_SIGN" /\ sign # D.sign_spec)
                 /\ D.type_spec \in {"NO_TYPE", "INT", "CHAR"}
        Apply(R) == IF apply THEN [R EXCEPT !.sign_spec = sign,
                                            !.sign_spec_node = n]
                    ELSE R
    IN  [Apply(BadType(Conflict(D))) EXCEPT !.ret = TRUE]

\* addDeclSpecifier, `else if (spec.is(cxx.type_specifier))': class, enum,
\* elaborated or typename specifier
addOtherType(D, n) ==
    IF D.type_spec # "NO_TYPE" THEN [D EXCEPT !.ret = (D.type_spec_node = n)]
    ELSE IF D.sign_spec # "NO_SIGN" \/ D.size_spec # "NO_SIZE"
    THEN [cxx_emit(D, n, "modifier cannot be used with type") EXCEPT !.ret = TRUE]
    ELSE [D EXCEPT !.type_spec = "OTHER", !.type_spec_node = n, !.ret = TRUE]

\* the fold with sign specifiers dropped
addDeclSpecifier_NoSign(D, n, spec) ==
    CASE spec.is = "type_qualifier" ->
           [D EXCEPT !.type_qual = @ \cup qualifierForToken(spec.first),
                     !.ret = TRUE]
      [] spec.is = "simple_type_specifier" ->
           IF typeOfToken(spec) # "NO_TYPE" THEN addType(D, n, typeOfToken(spec))
           ELSE IF sizeOfToken(spec) # "NO_SIZE"
           THEN addSize(D, n, sizeOfToken(spec))
           ELSE [D EXCEPT !.ret = TRUE]
      [] spec.is = "type_specifier" -> addOtherType(D, n)
      [] OTHER -> [D EXCEPT !.ret = TRUE]

\* CXXParser::DeclSpecifier::addDeclSpecifier(cxx, spec); spec is node n
addDeclSpecifier(D, n, spec) ==
    CASE spec.is = "type_qualifier" ->
           [D EXCEPT !.type_qual = @ \cup qualifierForToken(spec.first),
                     !.ret = TRUE]
      [] spec.is = "simple_type_specifier" ->
           IF typeOfToken(spec) # "NO_TYPE" THEN addType(D, n, typeOfToken(spec))
           ELSE IF sizeOfToken(spec) # "NO_SIZE"
           THEN addSize(D, n, sizeOfToken(spec))
           ELSE IF signOfToken(spec) # "NO_SIGN"
           THEN addSign(D, n, signOfToken(spec))
           ELSE [D EXCEPT !.ret = TRUE]
      [] spec.is = "type_specifier" -> addOtherType(D, n)
      [] OTHER -> [D EXCEPT !.ret = TRUE]

RECURSIVE foldSpecifiers(_, _, _)
\* the loop of DeclSpecifier::end over subProductions(decl_spec_seq): the
\* object after each child, with what addDeclSpecifier returned for it
foldSpecifiers(D, seq, n) ==
    IF n > Len(seq) THEN <<>>
    ELSE LET Next1(R) == <<R>> \o foldSpecifiers(R, seq, n + 1)
         IN  Next1(addDeclSpecifier(D, n, seq[n]))

(***************************************************************************)
(* CXXParser::Declarator: validating a declarator                          *)
(* The children of a declarator node are records [is, first, at, parts]:   *)
(* the nonterminal, the kind of the first token, that token's identity     *)
(* (nesting level and place) and, for a nested declarator, its children.   *)
(***************************************************************************)
\* the null Token pointer
NullToken == <<>>

\* a freshly constructed Declarator (`new this_t'); diags collects what
\* state.emit() is given during check()
NewDeclarator ==
    [last_ptr |-> NullToken, begin_parms |-> NullToken, array |-> FALSE,
     diags |-> <<>>, ret |-> TRUE]

\* state.emit(Diagnostic::ERROR, message)
state_emit(D, msg) ==
    [D EXCEPT !.diags = Append(@, [severity |-> "ERROR", msg |-> msg])]

\* the local variables of one call of check()
CheckLocals ==
    [nested_dcl |-> <<>>, ref_op |-> NullToken, ref_to_ref |-> FALSE,
     ptr_to_ref |-> FALSE, multi_fn_parms |-> FALSE, array_of_refs |-> FALSE]

\* the body of check()'s loop for one child; S = [D, v]: object and locals
checkPart(S, part) ==
    CASE part.is = "ptr_operator" ->
           LET Ref(R) ==
                   IF part.first \in {"AMP", "AMPAMP"}
                   THEN IF R.v.ref_op = NullToken
                        THEN [R EXCEPT !.v.ref_op = part.at]
                        ELSE IF ~R.v.ref_to_ref
                        THEN [R EXCEPT
                                !.D = state_emit(@, "reference to reference not permitted"),
                                !.v.ref_to_ref = TRUE]
                        ELSE R
                   ELSE IF R.v.ref_op # NullToken /\ ~R.v.ptr_to_ref
                   THEN [R EXCEPT
                           !.D = state_emit(@, "pointer to reference not permitted"),
                           !.v.ptr_to_ref = TRUE]
                   ELSE R
           IN  [Ref(S) EXCEPT !.D.last_ptr = part.at]
      [] part.is = "parameters_and_qualifiers" ->
           IF S.D.begin_parms = NullToken
           THEN [S EXCEPT !.D.begin_parms = part.at]
           ELSE IF ~S.v.multi_fn_parms
           THEN [S EXCEPT
                   !.D = state_emit(@, "multiple sets of function parameters/qualifiers"),
                   !.v.multi_fn_parms = TRUE]
           ELSE S
      [] part.is = "array_declarator" ->
           LET Err(R) ==
                   IF R.v.ref_op # NullToken /\ ~R.v.array_of_refs
                   THEN [R EXCEPT
                           !.D = state_emit(@, "array of references not permitted"),
                           !.v.array_of_refs = TRUE]
                   ELSE R
           IN  [Err(S) EXCEPT !.D.array = TRUE]
      [] part.is \in {"nested_declarator", "nested_abstract_declarator"} ->
           [S EXCEPT !.v.nested_dcl = <<part>>]
      [] OTHER -> S

RECURSIVE checkParts(_, _, _)
\* check()'s loop over subProductions(dcl_node), from child k on
checkParts(S, parts, k) ==
    IF k > Len(parts) THEN S
    ELSE checkParts(checkPart(S, parts[k]), parts, k + 1)

RECURSIVE check(_, _)
\* CXXParser::Declarator::check(state, cxx, dcl_node) on the object D
check(D, parts) ==
    LET Walked(S) ==
            IF S.v.nested_dcl # <<>> THEN check(S.D, S.v.nested_dcl[1].parts)
            ELSE [S.D EXCEPT !.ret = TRUE]
    IN  Walked(checkParts([D |-> D, v |-> CheckLocals], parts, 1))

\* CXXParser::Declarator::lastPtrOperator(cxx, dcl_node): the place of the
\* node among the children, 0 for the null pointer
lastPtrOperator(parts) ==
    LET leading == {k \in DOMAIN parts :
                      \A j \in 1 .. k : parts[j].is = "ptr_operator"}
    IN  IF leading = {} THEN 0
        ELSE CHOOSE k \in leading : \A j \in leading : j <= k

(***************************************************************************)
(* ExprMatch: literals and their comparison                                *)
(* A 64-bit integer (intmax_t i / uintmax_t u of the union in Literal) is  *)
(* kept as its four 16-bit parts, most significant first; i and u are two  *)
(* readings of the same word.  The sizes are those of an LP64 build: int   *)
(* 32 bits, long and long long 64 bits, char16_t as short, char32_t and    *)
(* wchar_t as int.                                                         *)
(***************************************************************************)
\* carries propagated through four parts that may exceed 16 bits
Carry4(x1, x2, x3, x4) ==
    LET c4 == x4 \div 65536
        c3 == (x3 + c4) \div 65536
        c2 == (x2 + c3) \div 65536
    IN  [w |-> <<(x1 + c2) % 65536, (x2 + c3) % 65536, (x3 + c4) % 65536,
                 x4 % 65536>>,
         carry |-> (x1 + c2) \div 65536]
\* w * m + d in 64 bits, with what was carried out of them
MulAdd(w, m, d) == Carry4(w[1] * m, w[2] * m, w[3] * m, w[4] * m + d)
\* -i
Negate(w) ==
    Carry4(65535 - w[1], 65535 - w[2], 65535 - w[3], 65535 - w[4] + 1).w
IsNegative(w) == w[1] >= 32768
RECURSIVE ULess(_, _)
\* a < b as unsigned values; also used on longer sequences of parts
ULess(a, b) ==
    IF a = <<>> THEN FALSE
    ELSE IF Head(a) # Head(b) THEN Head(a) < Head(b)
    ELSE ULess(Tail(a), Tail(b))
ULeq(a, b) == a = b \/ ULess(a, b)
\* a <= b as signed values
SLeq(a, b) ==
    IF IsNegative(a) # IsNegative(b) THEN IsNegative(a) ELSE ULeq(a, b)
Zero64 == <<0, 0, 0, 0>>
W_INT_MIN == <<65535, 65535, 32768, 0>>
W_INT_MAX == <<0, 0, 32767, 65535>>
W_UINT_MAX == <<0, 0, 65535, 65535>>
W_LONG_MIN == <<32768, 0, 0, 0>>
W_LONG_MAX == <<32767, 65535, 65535, 65535>>
W_ULONG_MAX == <<65535, 65535, 65535, 65535>>
W_LLONG_MAX == <<32767, 65535, 65535, 65535>>
W_ULLONG_MAX == <<65535, 65535, 65535, 65535>>
\* static_cast to an integer type of the given width and signedness,
\* widened back to 64 bits
Cast(w, bits, signed) ==
    CASE bits = 8 ->
           IF signed /\ (w[4] % 256) >= 128
           THEN <<65535, 65535, 65535, 65280 + (w[4] % 256)>>
           ELSE <<0, 0, 0, w[4] % 256>>
      [] bits = 16 ->
           IF signed /\ w[4] >= 32768 THEN <<65535, 65535, 65535, w[4]>>
           ELSE <<0, 0, 0, w[4]>>
      [] bits = 32 ->
           IF signed /\ w[3] >= 32768 THEN <<65535, 65535, w[3], w[4]>>
           ELSE <<0, 0, w[3], w[4]>>
      [] OTHER -> w

\* ExprType(sign, size, type); ExprType() is NoType
ExprType(sign, size, type) ==
    [sign |-> sign, size |-> size,
     type |-> IF type = "NO_TYPE" /\ (sign # "NO_SIGN" \/ size # "NO_SIZE")
              THEN "INT" ELSE type]
NoType == [sign |-> "NO_SIGN", size |-> "NO_SIZE", type |-> "NO_TYPE"]

\* ExprType::isSigned
isSigned(t) ==
    CASE t.type \in {"CHAR", "INT"} -> t.sign # "UNSIGNED"
      [] t.type \in {"FLOAT", "DOUBLE"} -> TRUE
      [] OTHER -> FALSE

\* ExprType::isUnsigned
isUnsigned(t) ==
    CASE t.type \in {"BOOL", "CHAR16_T", "CHAR32_T", "WCHAR_T"} -> TRUE
      [] t.type \in {"CHAR", "INT"} -> t.sign = "UNSIGNED"
      [] OTHER -> FALSE

\* ExprType::isNonPtrArithmeticType: the enumerators BOOL .. DOUBLE
isNonPtrArithmeticType(t) ==
    t.type \in {"BOOL", "CHAR", "CHAR16_T", "CHAR32_T", "WCHAR_T", "INT",
                "FLOAT", "DOUBLE"}

\* ExprType::intConvRank
intConvRank(t) ==
    CASE t.type = "BOOL" -> 0
      [] t.type = "CHAR" -> 1
      [] t.type = "CHAR16_T" -> 2
      [] t.type = "CHAR32_T" -> 3
      [] t.type = "WCHAR_T" -> 3
      [] t.type = "INT" ->
           (CASE t.size = "SHORT" -> 2
              [] t.size = "NO_SIZE" -> 3
              [] t.size = "LONG" -> 4
              [] t.size = "LONG_LONG" -> 5
              [] OTHER -> -1)
      [] OTHER -> -1

\* a Literal before its constructor has stored anything: the type is
\* default-initialised, the union is not
NewLiteral ==
    [type |-> NoType, val |-> [k |-> "indeterminate"], ub |-> FALSE,
     unmodelled |-> FALSE]
IntVal(w) == [k |-> "int", w |-> w]

\* what signed overflow in the accumulation can do: wrap round, or trap
OverflowOutcomes == {"wrap", "trap"}

\* the base of the digits of a numeric literal token
baseOf(kind) ==
    CASE kind = "BIN_INT_LITERAL" -> 2
      [] kind = "OCT_INT_LITERAL" -> 8
      [] kind = "HEX_INT_LITERAL" -> 16
      [] OTHER -> 10

\* the loop conditions `(c < '0') || (c > '1')' and the like
isDigitOf(kind, ch) ==
    IF kind = "HEX_INT_LITERAL" THEN isuxdigit(ch)
    ELSE isudigit(ch) /\ uxdigitval(ch) < baseOf(kind)

RECURSIVE readDigits(_, _, _)
\* readNumericLiteral: the digit loop of the token's kind;
\* R = [w, overflow, ub, pos] is i (or u), the flag overflow, whether the
\* signed multiplication has overflowed, and the iterator pos.  The decimal
\* loop tests u against ULLONG_MAX - 10 and multiplies the signed i; the
\* others test the top digit of i and shift
readDigits(R, kind, spelling) ==
    IF R.pos > Len(spelling) THEN R
    ELSE IF spelling[R.pos] = "'"
    THEN readDigits([R EXCEPT !.pos = @ + 1], kind, spelling)
    ELSE IF ~isDigitOf(kind, spelling[R.pos]) THEN R
    ELSE LET Step(r) ==
                 readDigits(
                     [w |-> r.w,
                      overflow |->
                          \/ R.overflow
                          \/ IF kind = "DEC_INT_LITERAL"
                             THEN ULess(<<65535, 65535, 65535, 65525>>, R.w)
                             ELSE R.w[1] >= 65536 \div baseOf(kind),
                      ub |-> \/ R.ub
                             \/ /\ kind = "DEC_INT_LITERAL"
                                /\ \/ r.carry > 0
                                   \/ IsNegative(r.w)
                                   \/ IsNegative(R.w),
                      pos |-> R.pos + 1],
                     kind, spelling)
         IN  Step(MulAdd(R.w, baseOf(kind), uxdigitval(spelling[R.pos])))

\* readNumericLiteral: `infer type from magnitude of value'
inferType(t, w, negative, overflow) ==
    IF overflow
    THEN [t EXCEPT !.size = "LONG_LONG",
                   !.sign = IF negative THEN @ ELSE "UNSIGNED"]
    ELSE IF SLeq(W_INT_MIN, w) /\ SLeq(w, W_INT_MAX) THEN t
    ELSE IF ~negative /\ ULeq(w, W_UINT_MAX) THEN [t EXCEPT !.sign = "UNSIGNED"]
    ELSE IF SLeq(W_LONG_MIN, w) /\ SLeq(w, W_LONG_MAX)
    THEN [t EXCEPT !.size = "LONG"]
    ELSE IF ~negative /\ ULeq(w, W_ULONG_MAX)
    THEN [t EXCEPT !.sign = "UNSIGNED", !.size = "LONG"]
    ELSE [t EXCEPT !.size = "LONG_LONG",
                   !.sign = IF ~negative /\ ULess(W_LLONG_MAX, w)
                            THEN "UNSIGNED" ELSE @]

RECURSIVE applySuffix(_, _, _)
\* readNumericLiteral: `apply suffix if present', for an integer literal
applySuffix(t, spelling, at) ==
    IF at > Len(spelling) THEN t
    ELSE CASE spelling[at] \in {"U", "u"} ->
                applySuffix([t EXCEPT !.sign = "UNSIGNED"], spelling, at + 1)
           [] spelling[at] \in {"L", "l"} ->
                IF t.size = "NO_SIZE"
                THEN applySuffix([t EXCEPT !.size = "LONG"], spelling, at + 1)
                ELSE IF t.size = "LONG"
                THEN applySuffix([t EXCEPT !.size = "LONG_LONG"], spelling, at + 1)
                ELSE t
           [] OTHER -> t

NumericKinds ==
    {"BIN_INT_LITERAL", "HEX_INT_LITERAL", "OCT_INT_LITERAL",
     "DEC_INT_LITERAL", "FLOAT_LITERAL"}

\* Literal::readNumericLiteral(input) on the literal L; the value stold
\* gives a floating literal is kept as the text it was given
readNumericLiteral(L, tok) ==
    LET spelling == tok.spelling
        negative == spelling # <<>> /\ spelling[1] = "-"
        start == IF negative THEN 2 ELSE 1
        first == IF tok.kind \in {"BIN_INT_LITERAL", "HEX_INT_LITERAL"}
                 THEN start + 2 ELSE start
        Typed(R) ==
            LET w == IF negative THEN Negate(R.w) ELSE R.w
            IN  [L EXCEPT
                   !.val = IntVal(w),
                   !.ub = R.ub,
                   !.type = applySuffix(
                                inferType([NoType EXCEPT !.type = "INT",
                                                         !.sign = "SIGNED"],
                                          w, negative, R.overflow),
                                spelling, R.pos)]
    IN  IF spelling = <<>> THEN L
        ELSE IF tok.kind \notin NumericKinds THEN L
        ELSE IF first > Len(spelling) THEN L
        ELSE IF tok.kind = "FLOAT_LITERAL"
        THEN [L EXCEPT !.type = [NoType EXCEPT !.type = "DOUBLE"],
                       !.val = [k |-> "float", stold |-> spelling]]
        ELSE Typed(readDigits([w |-> Zero64, overflow |-> FALSE,
                               ub |-> FALSE, pos |-> first],
                              tok.kind, spelling))

\* the values of the characters that character literals are made of here
CharCode(ch) ==
    CASE ch = "'" -> 39 [] ch = "\"" -> 34 [] ch = "?" -> 63 [] ch = BSL -> 92
      [] ch = "a" -> 97 [] ch = "b" -> 98 [] ch = "f" -> 102 [] ch = "n" -> 110
      [] ch = "r" -> 114 [] ch = "t" -> 116 [] ch = "v" -> 118
      [] ch = "u" -> 117 [] ch = "U" -> 85 [] ch = "x" -> 120
      [] isudigit(ch) -> 48 + uxdigitval(ch)
      [] OTHER -> 122

\* the values of '\a', '\b', '\f', '\n', '\r', '\t', '\v'
EscapeCode(ch) ==
    CASE ch = "a" -> 7 [] ch = "b" -> 8 [] ch = "f" -> 12 [] ch = "n" -> 10
      [] ch = "r" -> 13 [] ch = "t" -> 9 [] ch = "v" -> 11

\* readCharacterLiteral: the type named by the token's kind
charTypeOf(kind) ==
    CASE kind = "CHAR_LITERAL" -> "CHAR"
      [] kind = "WCHAR_LITERAL" -> "WCHAR_T"
      [] kind = "U16_CHAR_LITERAL" -> "CHAR16_T"
      [] kind = "U32_CHAR_LITERAL" -> "CHAR32_T"
      [] OTHER -> "NO_TYPE"

RECURSIVE escapeDigits(_, _, _, _)
\* readCharacterLiteral: the loops over the digits of \u, \U, \x (base 16)
\* and of an octal escape (base 8), up to stop; R = [w, pos]
escapeDigits(R, spelling, stop, base) ==
    IF R.pos >= stop THEN R
    ELSE IF base = 16 /\ ~isuxdigit(spelling[R.pos]) THEN R
    ELSE IF base = 8 /\ ~(/\ isudigit(spelling[R.pos])
                          /\ uxdigitval(spelling[R.pos]) < 8)
    THEN R
    ELSE escapeDigits([w |-> MulAdd(R.w, base, uxdigitval(spelling[R.pos])).w,
                       pos |-> R.pos + 1],
                      spelling, stop, base)

\* Literal::readCharacterLiteral(input) on the literal L
readCharacterLiteral(L, tok) ==
    LET spelling == tok.spelling
        end == Len(spelling) + 1
        Zeroed == [L EXCEPT !.val = IntVal(Zero64)]
        \* the test that ends the function
        Finish(M, begin, at) ==
            IF at > begin /\ at < end /\ spelling[at] = "'"
            THEN [M EXCEPT !.type.type = charTypeOf(tok.kind)]
            ELSE M
        Digits(begin, first, stop, base) ==
            LET Done(R) == Finish([Zeroed EXCEPT !.val = IntVal(R.w)],
                                  begin, R.pos)
            IN  IF stop >= end THEN Zeroed
                ELSE Done(escapeDigits([w |-> Zero64, pos |-> first],
                                       spelling, stop, base))
        Escape(at) ==
            LET esc == spelling[at]
            IN  CASE esc \in {"'", "\"", "?", BSL} ->
                       Finish([Zeroed EXCEPT
                                 !.val = IntVal(<<0, 0, 0, CharCode(esc)>>)],
                              at, at + 1)
                  [] esc \in {"a", "b", "f", "n", "r", "t", "v"} ->
                       Finish([Zeroed EXCEPT
                                 !.val = IntVal(<<0, 0, 0, EscapeCode(esc)>>)],
                              at, at + 1)
                  [] esc = "u" -> Digits(at, at + 1, at + 5, 16)
                  [] esc = "U" -> Digits(at, at + 1, at + 9, 16)
                  [] esc = "x" -> Digits(at, at + 1, end - 1, 16)
                  [] OTHER -> Digits(at, at, at + 3, 8)
    IN  IF spelling = <<>> THEN L
        ELSE IF charTypeOf(tok.kind) = "NO_TYPE" THEN L
        ELSE IF 2 >= end THEN L
        ELSE IF spelling[2] = BSL
        THEN IF 3 >= end THEN Zeroed ELSE Escape(3)
        ELSE IF spelling[2] # "'"
        THEN Finish([Zeroed EXCEPT
                       !.val = IntVal(<<0, 0, 0, CharCode(spelling[2])>>)],
                    2, 2)
        ELSE Finish(Zeroed, 2, 2)

\* Literal::Literal(cxx, input): input is a node over one token
Literal(node) ==
    CASE node.is = "numeric_literal" ->
           readNumericLiteral(NewLiteral, node.firstToken)
      [] node.is = "character_literal" ->
           readCharacterLiteral(NewLiteral, node.firstToken)
      [] node.is = "string_literal" -> NewLiteral
      [] node.is = "boolean_literal" ->
           [NewLiteral EXCEPT
              !.type.type = "BOOL",
              !.val = IntVal(IF node.firstToken.kind = "KW_TRUE"
                             THEN <<0, 0, 0, 1>> ELSE Zero64)]
      [] node.is = "pointer_literal" ->
           [NewLiteral EXCEPT !.type.type = "NULLPTR_T",
                              !.val = IntVal(Zero64)]
      [] OTHER -> NewLiteral

\* ExprType::bestCommonType(a, b); reading i of a literal that holds no
\* integer gives an arbitrary sign, taken as nonnegative here
bestCommonType(a, b) ==
    LET NonNeg(x) == x.val.k # "int" \/ ~IsNegative(x.val.w)
    IN  IF a.type = b.type THEN a.type
        ELSE IF ~isNonPtrArithmeticType(a.type)
                \/ ~isNonPtrArithmeticType(b.type)
        THEN NoType
        ELSE IF intConvRank(a.type) >= 0 /\ intConvRank(b.type) >= 0
        THEN IF intConvRank(a.type) > intConvRank(b.type) THEN a.type
             ELSE IF intConvRank(b.type) > intConvRank(a.type) THEN b.type
             ELSE IF isUnsigned(a.type)
             THEN IF NonNeg(b) THEN a.type ELSE b.type
             ELSE IF NonNeg(a) THEN b.type ELSE a.type
        ELSE ExprType("NO_SIGN", "LONG", "DOUBLE")

\* the width of an integer type in bits
bitsOf(t) ==
    CASE t.type = "CHAR" -> 8
      [] t.type = "CHAR16_T" -> 16
      [] t.type \in {"CHAR32_T", "WCHAR_T"} -> 32
      [] t.type = "INT" /\ t.size = "SHORT" -> 16
      [] t.type = "INT" /\ t.size = "NO_SIZE" -> 32
      [] OTHER -> 64

\* i = static_cast<T>(i) or u = static_cast<T>(u) on the union
castVal(v, bits, signed) ==
    IF v.k = "int" THEN IntVal(Cast(v.w, bits, signed))
    ELSE [k |-> "indeterminate"]

\* a value computed from or into the member d; floating values are kept
\* as the expression that gives them
floatVal(v, how) == [k |-> "float", stold |-> <<how, v>>]

\* convertType: the integer targets, for a source that is not BOOL
convertToInteger(L, to) ==
    LET from == L.type
        from_signed == isSigned(from)
        to_signed == isSigned(to)
        from_rank == intConvRank(from)
        to_rank == intConvRank(to)
        isFloat == from.type \in {"FLOAT", "DOUBLE"}
        \* i = static_cast<intmax_t>(d)
        M == IF ~(from_rank >= 0 /\ to_rank >= from_rank) /\ isFloat
             THEN [L EXCEPT !.val = [k |-> "indeterminate"],
                            !.unmodelled = TRUE]
             ELSE L
        rank == IF ~(from_rank >= 0 /\ to_rank >= from_rank) /\ isFloat
                THEN 5 ELSE from_rank
        Typed(N) == [N EXCEPT !.type = to]
    IN  IF from_rank >= 0 /\ to_rank >= from_rank
           /\ (to_signed = from_signed \/ (~from_signed /\ to_rank > from_rank))
        THEN Typed(L)
        ELSE IF ~(from_rank >= 0 /\ to_rank >= from_rank) /\ ~isFloat
                /\ (from_rank < 0 \/ to_rank < 0)
        THEN [L EXCEPT !.type = NoType]
        ELSE IF to_signed = from_signed
        THEN CASE to.type = "CHAR" ->
                    Typed([M EXCEPT !.val = castVal(@, 8, to_signed)])
               [] to.type \in {"CHAR16_T", "CHAR32_T"} ->
                    Typed([M EXCEPT !.val = castVal(@, bitsOf(to), FALSE)])
               [] to.type = "WCHAR_T" ->
                    Typed([M EXCEPT !.val = castVal(@, 32, TRUE)])
               [] to.type = "INT"
                    /\ to.size \in {"SHORT", "NO_SIZE", "LONG"} ->
                    Typed([M EXCEPT !.val = castVal(@, bitsOf(to), to_signed)])
               [] OTHER -> Typed(M)
        ELSE IF from_signed
        THEN IF M.val.k = "int" /\ ~IsNegative(M.val.w) /\ to_rank >= rank
             THEN Typed(M)
             ELSE CASE to.type \in {"CHAR", "CHAR16_T", "CHAR32_T"} ->
                         Typed([M EXCEPT !.val = castVal(@, bitsOf(to), FALSE)])
                    [] to.type = "WCHAR_T" ->
                         Typed([M EXCEPT !.val = castVal(@, 32, TRUE)])
                    [] to.type = "INT" ->
                         Typed([M EXCEPT !.val = castVal(@, bitsOf(to), FALSE)])
                    [] OTHER -> Typed(M)
        ELSE CASE to.type = "CHAR" ->
                    Typed([M EXCEPT !.val = castVal(@, 8, TRUE)])
               [] to.type = "INT"
                    /\ to.size \in {"SHORT", "NO_SIZE", "LONG"} ->
                    Typed([M EXCEPT !.val = castVal(@, bitsOf(to), TRUE)])
               [] OTHER -> Typed(M)

\* i = (i != 0)
nonZero(v) ==
    IF v.k = "int"
    THEN IntVal(IF v.w # Zero64 THEN <<0, 0, 0, 1>> ELSE Zero64)
    ELSE [k |-> "indeterminate"]

IntegerTypes == {"CHAR", "CHAR16_T", "CHAR32_T", "WCHAR_T", "INT"}

\* Literal::convertType(to_type) on the literal L
convertType(L, to) ==
    IF to = L.type THEN L
    ELSE CASE to.type = "BOOL" ->
                IF L.type.type \in IntegerTypes \cup {"NULLPTR_T"}
                THEN [L EXCEPT !.val = nonZero(@), !.type = to]
                ELSE IF L.type.type \in {"FLOAT", "DOUBLE"}
                THEN [L EXCEPT !.val = floatVal(@, "d != 0.0"),
                               !.unmodelled = TRUE, !.type = to]
                ELSE [L EXCEPT !.type = NoType]
           [] to.type \in IntegerTypes ->
                IF L.type.type = "BOOL" THEN [L EXCEPT !.type = to]
                ELSE convertToInteger(L, to)
           [] to.type = "FLOAT" ->
                IF L.type.type \in IntegerTypes \cup {"BOOL"}
                THEN [L EXCEPT !.val = floatVal(@, <<"float", isSigned(L.type)>>),
                               !.type = to]
                ELSE IF L.type.type = "DOUBLE"
                THEN [L EXCEPT !.val = floatVal(@, "float"), !.type = to]
                ELSE [L EXCEPT !.type = NoType]
           [] to.type = "DOUBLE" ->
                IF L.type.type \in IntegerTypes \cup {"BOOL"}
                THEN [L EXCEPT
                        !.val = floatVal(@, <<IF to.size = "LONG"
                                              THEN "long double" ELSE "double",
                                              isSigned(L.type)>>),
                        !.type = to]
                ELSE IF L.type.type = "DOUBLE"
                THEN [L EXCEPT
                        !.val = IF to.size # L.type.size /\ L.type.size = "LONG"
                                THEN floatVal(@, "double") ELSE @,
                        !.type = to]
                ELSE [L EXCEPT !.type = NoType]
           [] OTHER -> [L EXCEPT !.type = NoType]

\* areEquivalent(a, b, target_type)
areEquivalent(a, b, target_type) ==
    LET Compare(target) ==
            LET Both(a2, b2) ==
                    IF a2.type.type = "NO_TYPE" THEN FALSE
                    ELSE IF b2.type.type = "NO_TYPE" THEN FALSE
                    ELSE IF target.type \in IntegerTypes
                                              \cup {"BOOL", "NULLPTR_T"}
                    THEN a2.val = b2.val
                    ELSE IF target.type \in {"FLOAT", "DOUBLE"}
                    THEN a2.val = b2.val
                    ELSE FALSE
            IN  Both(convertType(a, target), convertType(b, target))
    IN  IF target_type.type \in {"NO_TYPE", "OTHER"}
        THEN Compare(bestCommonType(a, b))
        ELSE Compare(target_type)

(***************************************************************************)
(* Bounds and the texts the lexer is run on                                *)
(***************************************************************************)
\* most feature bits in extra_features
MaxExtra == 2

\* longest text of bracket characters
MaxLen == 4

\* most pieces in a text of directive lines
MaxAtoms == 4

\* longest text read character by character
MaxReadLen == 5

\* longest generated directive name
MaxNameLen == 3

\* longest text after the backslash of a universal character name, in pieces
MaxUcnAtoms == 3

\* longest text lexed before the template-list hook is run
MaxSplitLen == 4

\* longest specifier sequence folded
MaxSpecs == 3

\* most ptr-operators in front of one declarator
MaxPtrOps == 2

\* most letters in the suffix of an integer literal
MaxSuffix == 2

\* longest contents of a raw string literal, in pieces
MaxRawLen == 5

\* longest text of literals, operators and comments, in pieces
MaxWordLen == 4

RECURSIVE Texts(_, _)
\* all concatenations of at most n pieces taken from the set `atoms'
Texts(atoms, n) ==
    IF n = 0 THEN {<<>>}
    ELSE LET shorter == Texts(atoms, n - 1)
         IN  shorter \cup {t \o a : t \in shorter, a \in atoms}

\* ---- literal nodes ----
Token1(kind, spelling) == [kind |-> kind, spelling |-> spelling]
Node1(is, kind, spelling) == [is |-> is, firstToken |-> Token1(kind, spelling)]
DecNumerals ==
    {<<"1">>,
     <<"2", "5", "5">>,
     <<"2", "1", "4", "7", "4", "8", "3", "6", "4", "7">>,
     <<"2", "1", "4", "7", "4", "8", "3", "6", "4", "8">>,
     <<"4", "2", "9", "4", "9", "6", "7", "2", "9", "5">>,
     <<"4", "2", "9", "4", "9", "6", "7", "2", "9", "6">>,
     <<"9", "2", "2", "3", "3", "7", "2", "0", "3", "6", "8", "5", "4", "7", "7", "5", "8", "0", "7">>,
     <<"9", "2", "2", "3", "3", "7", "2", "0", "3", "6", "8", "5", "4", "7", "7", "5", "8", "0", "8">>,
     <<"1", "8", "4", "4", "6", "7", "4", "4", "0", "7", "3", "7", "0", "9", "5", "5", "1", "6", "1", "5">>,
     <<"1", "8", "4", "4", "6", "7", "4", "4", "0", "7", "3", "7", "0", "9", "5", "5", "1", "6", "1", "6">>,
     <<"1", "8", "4", "4", "6", "7", "4", "4", "0", "7", "3", "7", "0", "9", "5", "5", "1", "6", "1", "5", "0">>,
     <<"1", "'", "0", "0", "0">>,
     <<"-", "1">>,
     <<"-", "2", "1", "4", "7", "4", "8", "3", "6", "4", "8">>,
     <<"-", "2", "1", "4", "7", "4", "8", "3", "6", "4", "9">>,
     <<"-", "9", "2", "2", "3", "3", "7", "2", "0", "3", "6", "8", "5", "4", "7", "7", "5", "8", "0", "8">>}
PartnerNumerals ==
    {<<"1">>,
     <<"-", "1">>,
     <<"4", "2", "9", "4", "9", "6", "7", "2", "9", "5">>,
     <<"2", "1", "4", "7", "4", "8", "3", "6", "4", "8">>,
     <<"1", "8", "4", "4", "6", "7", "4", "4", "0", "7", "3", "7", "0", "9", "5", "5", "1", "6", "1", "5">>,
     <<"-", "2", "1", "4", "7", "4", "8", "3", "6", "4", "8">>,
     <<"4", "2", "9", "4", "9", "6", "7", "2", "9", "6">>}
SuffixLetters == {<<"u">>, <<"l">>}
OtherNumerics ==
    {Token1("HEX_INT_LITERAL", <<"0", "x", "1", "0">>),
     Token1("HEX_INT_LITERAL",
            <<"0", "x", "f", "f", "f", "f", "f", "f", "f", "f", "f", "f",
              "f", "f", "f", "f", "f", "f">>),
     Token1("OCT_INT_LITERAL", <<"0", "1", "0">>),
     Token1("OCT_INT_LITERAL", <<"0">>),
     Token1("BIN_INT_LITERAL", <<"0", "b", "1", "1">>),
     Token1("FLOAT_LITERAL", <<"1", ".", "5">>),
     Token1("FLOAT_LITERAL", <<"1", ".", "5", "f">>),
     Token1("FLOAT_LITERAL", <<"1", ".", "5", "L">>)}
\* the spelling of a character literal token is its content, escapes
\* replaced, without the quotes (CXXLexer::stringOrCharLiteral); the
\* spellings with quotes are what readCharacterLiteral looks for
CharSpellings ==
    {<<"a">>, <<"a", "b">>, <<BSL>>, <<"a", BSL, "n", "'">>, <<"'", "a", "'">>, <<"'", BSL, "n", "'">>, <<"'", BSL, "x", "4", "1", "'">>, <<"'", BSL, "1", "0", "1", "'">>, <<"'", BSL, "u", "0", "0", "4", "1", "'">>}
CharKinds ==
    {"CHAR_LITERAL", "WCHAR_LITERAL", "U16_CHAR_LITERAL", "U32_CHAR_LITERAL"}
LiteralNodes ==
    {Node1("numeric_literal", "DEC_INT_LITERAL", n \o x) :
         n \in DecNumerals, x \in Texts(SuffixLetters, MaxSuffix)}
    \cup {[is |-> "numeric_literal", firstToken |-> t] : t \in OtherNumerics}
    \cup {Node1("character_literal", k, x) :
              k \in CharKinds, x \in CharSpellings}
    \cup {Node1("string_literal", "STR_LITERAL", <<"a", "b">>),
          Node1("string_literal", "STR_LITERAL", <<>>),
          Node1("boolean_literal", "KW_TRUE", <<"t", "r", "u", "e">>),
          Node1("boolean_literal", "KW_FALSE", <<"f", "a", "l", "s", "e">>),
          Node1("pointer_literal", "KW_NULLPTR",
                <<"n", "u", "l", "l", "p", "t", "r">>)}
PartnerNodes ==
    {Node1("numeric_literal", "DEC_INT_LITERAL", n \o x) :
         n \in PartnerNumerals, x \in {<<>>, <<"u">>}}
    \cup {Node1("boolean_literal", "KW_TRUE", <<"t", "r", "u", "e">>),
          Node1("character_literal", "CHAR_LITERAL", <<"'", BSL, "n", "'">>)}

\* ---- raw string literals ----
Repeat(ch, n) == [k \in 1..n |-> ch]
RawPieces == {<<")">>, <<"\"">>, <<"d">>, <<"?">>, <<BSL, NL>>}
RawDelimiters == {<<>>, <<"d">>, <<"d", "d">>}
RawInputs ==
    {<<"R", "\"">> \o d \o <<"(">> \o t :
         d \in RawDelimiters, t \in Texts(RawPieces, MaxRawLen)}
    \cup {<<"R", "\"">> \o d : d \in RawDelimiters}
    \cup {<<"R", "\"">> \o d \o <<"(", ")", "\"">> :
              d \in {<<" ">>, <<")">>, <<BSL>>, Repeat("d", 16),
                     Repeat("d", 17)}}

BracketChars == {<<"<">>, <<">">>, <<"=">>, <<"(">>, <<")">>, <<":">>, <<"%">>}
LineAtoms    == {<<"#">>, N_endif, <<"x">>, <<NL>>, <<" ">>, <<"<">>}
ReadChars    == {<<"?">>, <<"/">>, <<BSL>>, <<NL>>, <<"=">>}
NameChars    == {<<"e">>, <<"f">>, <<"i">>, <<"l">>, <<"n">>}

LexInputs  == Texts(BracketChars, MaxLen) \cup Texts(LineAtoms, MaxAtoms)
ReadInputs == Texts(ReadChars, MaxReadLen)
\* children of a specifier sequence: qualifier, storage class, simple type
\* specifiers (long long is one node of two tokens), a type name, and a
\* class specifier
SpecNodes ==
    {[is |-> "type_qualifier", first |-> "KW_CONST", single |-> TRUE],
     [is |-> "storage_class_specifier", first |-> "KW_STATIC", single |-> TRUE],
     [is |-> "type_specifier", first |-> "KW_CLASS", single |-> FALSE]}
    \cup {[is |-> "simple_type_specifier", first |-> k, single |-> TRUE] :
            k \in {"KW_VOID", "KW_CHAR", "KW_INT", "KW_DOUBLE", "KW_SHORT",
                   "KW_LONG", "KW_SIGNED", "KW_UNSIGNED", "T", "nullptr_t"}}
    \cup {[is |-> "simple_type_specifier", first |-> "KW_LONG", single |-> FALSE]}
SpecSeqs == Texts({<<n>> : n \in SpecNodes}, MaxSpecs) \ {<<>>}

\* declarators: ptr-operators, then a declarator-id or a parenthesised
\* declarator, then parameter lists or an array part; one level of nesting
PtrOpKinds == {<<"STAR">>, <<"AMP">>, <<"AMPAMP">>, <<"IDENTIFIER">>}
DclSuffixes ==
    {<<>>, <<"parameters_and_qualifiers">>, <<"array_declarator">>,
     <<"parameters_and_qualifiers", "parameters_and_qualifiers">>,
     <<"parameters_and_qualifiers", "parameters_and_qualifiers",
       "parameters_and_qualifiers">>}
DclParts(level, ops, core, suffix) ==
    [k \in 1 .. Len(ops) |->
        [is |-> "ptr_operator", first |-> ops[k], at |-> <<level, k>>,
         parts |-> <<>>]]
    \o <<[core EXCEPT !.at = <<level, Len(ops) + 1>>]>>
    \o [k \in 1 .. Len(suffix) |->
        [is |-> suffix[k], first |-> "LPAREN", at |-> <<level, Len(ops) + 1 + k>>,
         parts |-> <<>>]]
DeclaratorId ==
    [is |-> "declarator_id", first |-> "IDENTIFIER", at |-> <<>>, parts |-> <<>>]
InnerDeclarators ==
    {DclParts(1, ops, DeclaratorId, suffix) :
        ops \in Texts(PtrOpKinds, MaxPtrOps), suffix \in DclSuffixes}
OuterDeclarators ==
    {DclParts(0, ops, core, suffix) :
        ops \in Texts(PtrOpKinds, MaxPtrOps), suffix \in DclSuffixes,
        core \in {DeclaratorId}
                 \cup {[is |-> "nested_declarator", first |-> "LPAREN",
                        at |-> <<>>, parts |-> inner] :
                       inner \in InnerDeclarators}}

SplitChars == {<<"<">>, <<">">>, <<"=">>, <<"(">>}
SplitInputs == Texts(SplitChars, MaxSplitLen)
UcnAtoms ==
    {<<"u">>, <<"U">>, <<"x">>, <<"0">>, <<"0", "0", "4", "1">>,
     <<"d", "8", "0", "0">>, <<"D", "f", "F", "F">>, <<"0", "0", "0", "0">>,
     <<"0", "0", "2", "0">>, <<"f", "f", "f", "f">>}
UcnInputs == {<<BSL>> \o t : t \in Texts(UcnAtoms, MaxUcnAtoms)}
PPNames ==
    (Texts(NameChars, MaxNameLen) \ {<<>>})
        \cup {N_define, N_undef, N_if, N_ifdef, N_ifndef, N_elif, N_else,
              N_endif, N_line, N_error, N_warning, N_pragma, N_include,
              N_include_next}
        \cup {N_endif \o <<"x">>, N_include \o <<"x">>, SubSeq(N_include, 1, 6),
              SubSeq(N_pragma, 1, 5), N_line \o <<"s">>, <<"x">>, <<"e", "x">>}

\* constructor arguments tried: every standard, none, and an invalid one
LanguageChoices ==
    {cs + xs : cs \in {0, C89, C90, C95, C99, C11, C11 + 1},
               xs \in {0, CXX98, CXX03, CXX11, CXX14, CXX17, CXX17 + CXX98}}
ExtraChoices == {e \in SUBSET AllFeatures : Cardinality(e) <= MaxExtra}

\* ---- literals, prefixes, operators and comments ----
NumberAtoms ==
    {<<"1">>, <<"0">>, <<"e">>, <<"+">>, <<".">>, <<"x">>, <<"b">>, <<"f">>}
QuoteAtoms ==
    {<<"u">>, <<"U">>, <<"L">>, <<"u", "8">>, <<"R">>, <<"'">>, <<"\"">>,
     <<"a">>, <<"&">>}
CommentAtoms ==
    {<<"/">>, <<"*">>, <<"#">>, <<"x">>, <<NL>>, <<BSL, NL>>, <<"\"">>,
     <<BSL, "n">>}
WordInputs ==
    Texts(NumberAtoms, MaxWordLen) \cup Texts(QuoteAtoms, MaxWordLen)
        \cup Texts(CommentAtoms, MaxWordLen)
WordOptionChoices ==
    {<<C99, {}>>, <<C11, {}>>, <<CXX98, {}>>, <<CXX11, {}>>, <<CXX17, {}>>}

\* the dialects the lexer is run under
LexOptionChoices ==
    {<<CXX98, {}>>, <<CXX11, {}>>, <<C99, {KEEP_SPACE}>>}
ReadOptionChoices == {<<CXX11, {}>>, <<CXX17, {}>>}

(***************************************************************************)
(* State machine                                                           *)
(***************************************************************************)
\* the lexer object as the record the operators above work on
Lexer(ub) ==
    [o |-> options_, buf |-> buf, pos |-> pos, ntf |-> next_token_flags,
     stack |-> closing_tokens_, src |-> closing_src, pushed |-> pushed,
     ntok |-> ntok, tmp |-> <<>>, diags |-> <<>>, ret |-> EOFC, ok |-> FALSE,
     eat |-> FALSE, fault |-> FALSE, unmodelled |-> FALSE, ub |-> ub,
     reset |-> FALSE,
     t |-> [kind |-> "NULL", spelling |-> <<>>, flags |-> {}, offset |-> 0]]

\* the lexer's variables take the values of the record L
Store(L) ==
    /\ buf' = L.buf
    /\ pos' = L.pos
    /\ next_token_flags' = L.ntf
    /\ closing_tokens_' = L.stack
    /\ closing_src' = L.src
    /\ pushed' = L.pushed
    /\ ntok' = L.ntok

IdleOptions ==
    /\ languages = 0
    /\ extra_features = {}
    /\ options_ = NoOptions

IdleLexer ==
    /\ input = <<>>
    /\ buf = <<>>
    /\ pos = 0
    /\ next_token_flags = {}
    /\ closing_tokens_ = <<>>
    /\ closing_src = <<>>
    /\ pushed = <<>>
    /\ ntok = 0
    /\ tokens = <<>>
    /\ status = "idle"
    /\ logical = <<>>

IdlePP ==
    /\ pp_name = <<>>
    /\ pp_kind = "NULL"

IdleUcn ==
    /\ diagnostics = <<>>
    /\ ucn_ret = EOFC

IdleHook ==
    /\ cursor = 0
    /\ hook_ret = FALSE

NoAuxData == [none |-> TRUE]
IdleDecl ==
    /\ decl_spec_seq = <<>>
    /\ decl_fold = <<>>
    /\ decl_aux = NoAuxData
    /\ decl_ok = "none"

IdleDcl ==
    /\ dcl_node = <<>>
    /\ dcl_aux = NoAuxData

\* the parts of the state that the lexer runs below do not use
NoNode == [is |-> "none"]
IdleLit ==
    /\ lit_a = NoNode
    /\ lit_b = NoNode
    /\ lit_A = NewLiteral
    /\ lit_B = NewLiteral
    /\ lit_self = FALSE
    /\ lit_equiv = FALSE
    /\ lit_state = "none"

IdleRst == token_reset = FALSE

IdleAux ==
    /\ IdleUcn
    /\ IdleHook
    /\ IdleDecl
    /\ IdleDcl
    /\ IdleLit
    /\ IdleRst

\* a lexer constructed on the text `text' under an accepted dialect
NewLexer(choices, texts) ==
    /\ \E ch \in choices : /\ languages = ch[1]
                           /\ extra_features = ch[2]
                           /\ options_ = CXXOptionsNew(ch[1], ch[2])
    /\ options_.state = "ok"
    /\ input \in texts
    /\ buf = input
    /\ pos = 0
    /\ next_token_flags = {TF_STARTS_LINE}
    /\ closing_tokens_ = <<>>
    /\ closing_src = <<>>
    /\ pushed = <<>>
    /\ ntok = 0
    /\ tokens = <<>>
    /\ status = "run"
    /\ logical = <<>>

\* ---- the options constructor ----
InitOptions ==
    /\ languages \in LanguageChoices
    /\ extra_features \in ExtraChoices
    /\ options_ = NoOptions
    /\ IdleLexer
    /\ IdlePP
    /\ IdleAux

Construct ==
    /\ options_.state = "none"
    /\ options_' = CXXOptionsNew(languages, extra_features)
    /\ UNCHANGED <<languages, extra_features>>
    /\ UNCHANGED lexVars
    /\ UNCHANGED <<logical, pp_name, pp_kind>>
    /\ UNCHANGED auxVars

NextOptions == Construct
SpecOptions == InitOptions /\ [][NextOptions]_vars

\* ---- one call of lex() ----
InitLex ==
    /\ NewLexer(LexOptionChoices, LexInputs)
    /\ IdlePP
    /\ IdleAux

LexToken ==
    /\ status = "run"
    /\ LET Return(L) ==
               /\ Store(L)
               /\ IF L.fault
                  THEN /\ status' = "fault"
                       /\ tokens' = tokens
                  ELSE /\ status' = IF L.t.kind = "EOF" THEN "eof" ELSE "run"
                       /\ tokens' = Append(tokens,
                              [kind |-> L.t.kind, spelling |-> L.t.spelling,
                               flags |-> L.t.flags, offset |-> L.t.offset,
                               end |-> L.pos, closers |-> closing_tokens_,
                               unmodelled |-> L.unmodelled])
               /\ diagnostics' = L.diags
               /\ token_reset' = L.reset
       IN  \E ub \in UBOutcomes : Return(lex(Lexer(ub)))
    /\ UNCHANGED optVars
    /\ UNCHANGED <<input, logical, pp_name, pp_kind>>
    /\ UNCHANGED <<ucn_ret, hookVars, declVars, dclVars, litVars>>

NextLex == LexToken
Spec == InitLex /\ [][NextLex]_vars

\* ---- one call of CXXLexer::read() ----
InitRead ==
    /\ NewLexer(ReadOptionChoices, ReadInputs)
    /\ IdlePP
    /\ IdleAux

ReadChar ==
    /\ status = "run"
    /\ LET Return(L) ==
               /\ Store(L)
               /\ IF L.ret = EOFC
                  THEN status' = "eof" /\ logical' = logical
                  ELSE status' = "run" /\ logical' = Append(logical, L.ret)
       IN  Return(read(Lexer("nomatch")))
    /\ UNCHANGED optVars
    /\ UNCHANGED <<input, tokens, pp_name, pp_kind>>
    /\ UNCHANGED auxVars

NextRead == ReadChar
SpecRead == InitRead /\ [][NextRead]_vars

\* ---- directive recognition on a name that follows a line-starting # ----
InitPP ==
    /\ languages = CXX11
    /\ extra_features = {}
    /\ options_ = CXXOptionsNew(languages, extra_features)
    /\ IdleLexer
    /\ pp_name \in PPNames
    /\ pp_kind = "NULL"
    /\ IdleAux

Recognise ==
    /\ pp_kind = "NULL"
    /\ LET L0 == [Lexer("nomatch") EXCEPT !.buf = <<"#">> \o pp_name, !.pos = 1,
                                          !.t.kind = "HASH"]
       IN  pp_kind' = ppDirective(L0).t.kind
    /\ UNCHANGED optVars
    /\ UNCHANGED lexVars
    /\ UNCHANGED <<logical, pp_name>>
    /\ UNCHANGED auxVars

NextPP == Recognise
SpecPP == InitPP /\ [][NextPP]_vars

\* ---- one call of ucn(), made as readToken does after reading a backslash ----
InitUcn ==
    /\ NewLexer(ReadOptionChoices, UcnInputs)
    /\ IdlePP
    /\ IdleAux

ReadUcn ==
    /\ status = "run"
    /\ LET Return(L) ==
               /\ Store(L)
               /\ diagnostics' = L.diags
               /\ ucn_ret' = L.ret
       IN  Return(ucn(read(Lexer("nomatch"))))
    /\ status' = "done"
    /\ UNCHANGED optVars
    /\ UNCHANGED <<input, tokens, logical, pp_name, pp_kind>>
    /\ UNCHANGED <<hookVars, declVars, dclVars, litVars, rstVars>>

NextUcn == ReadUcn
SpecUcn == InitUcn /\ [][NextUcn]_vars

\* ---- the template-list hook run on a token of a lexed text ----
InitSplit ==
    /\ NewLexer(LexOptionChoices, SplitInputs)
    /\ IdlePP
    /\ IdleAux

\* the parser stands at some token and the grammar's predicate calls the hook
SplitToken ==
    /\ status = "eof"
    /\ \E i \in DOMAIN tokens :
           LET Return(r) ==
                   /\ tokens' = r.tokens
                   /\ hook_ret' = r.ret
                   /\ cursor' = i
           IN  Return(processTemplParmArgListEndToken(options_, tokens, i))
    /\ UNCHANGED optVars
    /\ UNCHANGED <<input, buf, pos, next_token_flags, closing_tokens_,
                   closing_src, pushed, ntok, status>>
    /\ UNCHANGED <<logical, pp_name, pp_kind>>
    /\ UNCHANGED <<ucnVars, declVars, dclVars, litVars, rstVars>>

NextSplit == LexToken \/ SplitToken
SpecSplit == InitSplit /\ [][NextSplit]_vars

\* ---- the post-parse action of a specifier sequence ----
InitDecl ==
    /\ IdleOptions
    /\ IdleLexer
    /\ IdlePP
    /\ IdleUcn
    /\ IdleHook
    /\ IdleDcl
    /\ IdleLit
    /\ IdleRst
    /\ decl_spec_seq \in SpecSeqs
    /\ decl_fold = <<>>
    /\ decl_aux = NoAuxData
    /\ decl_ok = "none"

\* CXXParser::DeclSpecifier::end(state)
DeclSpecifierEnd ==
    /\ decl_ok = "none"
    /\ LET Return(fold) ==
               LET ok == \A k \in DOMAIN fold : fold[k].ret
               IN  /\ decl_fold' = fold
                   /\ decl_ok' = IF ok THEN "true" ELSE "false"
                   /\ decl_aux' = IF ~ok THEN NoAuxData
                                  ELSE IF fold = <<>> THEN NewDeclSpecifier
                                  ELSE fold[Len(fold)]
       IN  Return(foldSpecifiers(NewDeclSpecifier, decl_spec_seq, 1))
    /\ UNCHANGED decl_spec_seq
    /\ UNCHANGED optVars
    /\ UNCHANGED lexVars
    /\ UNCHANGED <<logical, pp_name, pp_kind>>
    /\ UNCHANGED <<ucnVars, hookVars, dclVars, litVars, rstVars>>

NextDecl == DeclSpecifierEnd
SpecDecl == InitDecl /\ [][NextDecl]_vars

\* ---- the post-parse action of a declarator ----
InitDeclarator ==
    /\ IdleOptions
    /\ IdleLexer
    /\ IdlePP
    /\ IdleUcn
    /\ IdleHook
    /\ IdleDecl
    /\ IdleLit
    /\ IdleRst
    /\ dcl_node \in OuterDeclarators
    /\ dcl_aux = NoAuxData

\* CXXParser::Declarator::end(state)
DeclaratorEnd ==
    /\ dcl_aux = NoAuxData
    /\ LET Return(me) == dcl_aux' = IF me.ret THEN me ELSE NoAuxData
       IN  Return(check(NewDeclarator, dcl_node))
    /\ UNCHANGED dcl_node
    /\ UNCHANGED optVars
    /\ UNCHANGED lexVars
    /\ UNCHANGED <<logical, pp_name, pp_kind>>
    /\ UNCHANGED <<ucnVars, hookVars, declVars, litVars, rstVars>>

NextDeclarator == DeclaratorEnd
SpecDeclarator == InitDeclarator /\ [][NextDeclarator]_vars

\* ---- raw string literals ----
InitRaw ==
    /\ NewLexer(ReadOptionChoices, RawInputs)
    /\ IdlePP
    /\ IdleAux

NextRaw == LexToken
SpecRaw == InitRaw /\ [][NextRaw]_vars

\* ---- literals, prefixes, operators and comments ----
InitWord ==
    /\ NewLexer(WordOptionChoices, WordInputs)
    /\ IdlePP
    /\ IdleAux

NextWord == LexToken
SpecWord == InitWord /\ [][NextWord]_vars

\* ---- the literal engine ----
InitLiteral ==
    /\ IdleOptions
    /\ IdleLexer
    /\ IdlePP
    /\ IdleUcn
    /\ IdleHook
    /\ IdleDecl
    /\ IdleDcl
    /\ IdleRst
    /\ lit_a \in LiteralNodes
    /\ lit_b \in PartnerNodes
    /\ lit_A = NewLiteral
    /\ lit_B = NewLiteral
    /\ lit_self = FALSE
    /\ lit_equiv = FALSE
    /\ lit_state = "none"

\* Literal a(cxx, lit_a), b(cxx, lit_b); areEquivalent(a, a, a.type);
\* areEquivalent(a, b, ExprType::bestCommonType(a, b))
CompareLiterals ==
    /\ lit_state = "none"
    /\ \E outcome \in OverflowOutcomes :
           LET Return(a, b) ==
                   IF (a.ub \/ b.ub) /\ outcome = "trap"
                   THEN /\ lit_state' = "fault"
                        /\ UNCHANGED <<lit_A, lit_B, lit_self, lit_equiv>>
                   ELSE /\ lit_state' = "done"
                        /\ lit_A' = a
                        /\ lit_B' = b
                        /\ lit_self' = areEquivalent(a, a, a.type)
                        /\ lit_equiv' = areEquivalent(a, b, bestCommonType(a, b))
           IN  Return(Literal(lit_a), Literal(lit_b))
    /\ UNCHANGED <<lit_a, lit_b>>
    /\ UNCHANGED optVars
    /\ UNCHANGED lexVars
    /\ UNCHANGED <<logical, pp_name, pp_kind>>
    /\ UNCHANGED <<ucnVars, hookVars, declVars, dclVars, rstVars>>

NextLiteral == CompareLiterals
SpecLiteral == InitLiteral /\ [][NextLiteral]_vars

(***************************************************************************)
(* Reference notions the properties are stated with                        *)
(***************************************************************************)
\* the default feature set the documentation gives each standard
StdFeaturesOf(std) ==
    CASE std = 0     -> {}
      [] std = C89   -> {TRIGRAPHS}
      [] std = C90   -> {TRIGRAPHS}
      [] std = C95   -> {DIGRAPHS, TRIGRAPHS}
      [] std = C99   -> {DIGRAPHS, TRIGRAPHS, LINE_COMMENTS, UCNS, LONG_LONG,
                         HEX_FLOAT_LITERALS, INLINE_FUNCTIONS}
      [] std = C11   -> {DIGRAPHS, TRIGRAPHS, LINE_COMMENTS, UCNS, LONG_LONG,
                         HEX_FLOAT_LITERALS, INLINE_FUNCTIONS}
      [] std = CXX98 -> {LINE_COMMENTS, DIGRAPHS, TRIGRAPHS, INLINE_FUNCTIONS}
      [] std = CXX03 -> {LINE_COMMENTS, DIGRAPHS, TRIGRAPHS, INLINE_FUNCTIONS}
      [] std = CXX11 -> {LINE_COMMENTS, DIGRAPHS, TRIGRAPHS, INLINE_FUNCTIONS,
                         LONG_LONG, UCNS}
      [] std = CXX14 -> {LINE_COMMENTS, DIGRAPHS, TRIGRAPHS, INLINE_FUNCTIONS,
                         LONG_LONG, UCNS, BINARY_LITERALS}
      [] std = CXX17 -> {LINE_COMMENTS, DIGRAPHS, INLINE_FUNCTIONS, LONG_LONG,
                         UCNS, BINARY_LITERALS, UTF8_CHAR_LITERALS,
                         HEX_FLOAT_LITERALS}
      [] OTHER       -> {}

\* number of places of the sequence q that satisfy Test
CountIf(q, Test(_)) == Cardinality({i \in DOMAIN q : Test(q[i])})

RECURSIVE Concat(_)
\* the spellings of a token sequence, one after the other
Concat(ts) ==
    IF ts = <<>> THEN <<>> ELSE Head(ts).spelling \o Concat(Tail(ts))

\* the nine trigraphs: third character and replacement
NineTrigraphs ==
    {<<"<", "{">>, <<">", "}">>, <<"(", "[">>, <<")", "]">>, <<"=", "#">>,
     <<"/", BSL>>, <<"'", "^">>, <<"!", "|">>, <<"-", "~">>}

RECURSIVE FoldTrigraphs(_)
\* the text with every trigraph replaced, scanning left to right
FoldTrigraphs(txt) ==
    IF txt = <<>> THEN <<>>
    ELSE IF Len(txt) >= 3 /\ txt[1] = "?" /\ txt[2] = "?"
            /\ \E tg \in NineTrigraphs : tg[1] = txt[3]
    THEN <<(CHOOSE tg \in NineTrigraphs : tg[1] = txt[3])[2]>>
             \o FoldTrigraphs(SubSeq(txt, 4, Len(txt)))
    ELSE <<txt[1]>> \o FoldTrigraphs(Tail(txt))

RECURSIVE Splice(_)
\* the text with every backslash-newline pair deleted
Splice(txt) ==
    IF txt = <<>> THEN <<>>
    ELSE IF Len(txt) >= 2 /\ txt[1] = BSL /\ txt[2] = NL
    THEN Splice(SubSeq(txt, 3, Len(txt)))
    ELSE <<txt[1]>> \o Splice(Tail(txt))

\* the text after trigraph replacement (if enabled) and line splicing
Normalize(txt, o) ==
    Splice(IF TRIGRAPHS \in o.features_ THEN FoldTrigraphs(txt) ELSE txt)

RECURSIVE RefPopGreater(_)
\* a stack with every > at its top removed
RefPopGreater(st) ==
    IF st # <<>> /\ Head(st) = "GREATER" THEN RefPopGreater(Tail(st)) ELSE st

RECURSIVE RefStack(_)
\* the closing stack the bracket rules give after the token kinds ks
RefStack(ks) ==
    IF ks = <<>> THEN <<>>
    ELSE LET st == RefStack(SubSeq(ks, 1, Len(ks) - 1))
             k  == ks[Len(ks)]
         IN  CASE k = "LPAREN"  -> <<"RPAREN">> \o st
               [] k = "LSQUARE" -> <<"RSQUARE">> \o st
               [] k = "LBRACE"  -> <<"RBRACE">> \o st
               [] k = "LESS"    -> <<"GREATER">> \o st
               [] k = "GREATER" ->
                    IF st # <<>> /\ Head(st) = "GREATER" THEN Tail(st) ELSE st
               [] k \in {"RPAREN", "RSQUARE", "RBRACE"} ->
                    LET s1 == RefPopGreater(st)
                    IN  IF s1 # <<>> /\ Head(s1) = k THEN Tail(s1) ELSE s1
               [] OTHER -> st

\* a # or %: stands at place p of the text and starts its line
DirectiveStart(txt, p, o) ==
    /\ StartsLine(txt, p - 1)
    /\ \/ CharAt(txt, p) = "#" /\ CharAt(txt, p + 1) # "#"
       \/ /\ DIGRAPHS \in o.features_
          /\ CharAt(txt, p) = "%" /\ CharAt(txt, p + 1) = ":"
          /\ ~(CharAt(txt, p + 2) = "%" /\ CharAt(txt, p + 3) = ":")

\* place q of the text lies between a line-starting # and the first newline
\* after that #
InDirectiveLine(txt, q, o) ==
    \E p \in 1..q : /\ DirectiveStart(txt, p, o)
                    /\ \A j \in p..(q - 1) : CharAt(txt, j) # NL

\* the directive kind the documentation gives each name
ExpectedDirective(name) ==
    CASE name = N_define       -> "PP_DEFINE"
      [] name = N_undef        -> "PP_UNDEF"
      [] name = N_if           -> "PP_IF"
      [] name = N_ifdef        -> "PP_IFDEF"
      [] name = N_ifndef       -> "PP_IFNDEF"
      [] name = N_elif         -> "PP_ELIF"
      [] name = N_else         -> "PP_ELSE"
      [] name = N_endif        -> "PP_ENDIF"
      [] name = N_line         -> "PP_LINE"
      [] name = N_error        -> "PP_ERROR"
      [] name = N_warning      -> "PP_WARNING"
      [] name = N_pragma       -> "PP_PRAGMA"
      [] name = N_include      -> "PP_INCLUDE"
      [] name = N_include_next -> "PP_INCLUDE_NEXT"
      [] OTHER                 -> "PP_NULL"

IsNewlineToken(t) == t.kind = "WHITESPACE" /\ t.spelling = <<NL>>
IsNewline(ch) == ch = NL
IsSpace(ch) == isuspace(ch)

\* the DeclSpecifier object as child k of the sequence finds it
Before(k) == IF k = 1 THEN NewDeclSpecifier ELSE decl_fold[k - 1]
\* the diagnostics emitted while child k was folded
EmittedAt(k) ==
    SubSeq(decl_fold[k].diags, Len(Before(k).diags) + 1, Len(decl_fold[k].diags))
ConflictReportedAt(k) ==
    /\ Len(EmittedAt(k)) = 1
    /\ EmittedAt(k)[1].msg = "conflicts with earlier type specifier"
    /\ EmittedAt(k)[1].at = k
\* child k is a simple type specifier naming a type while a type is set
SecondTypeAt(k) ==
    /\ decl_spec_seq[k].is = "simple_type_specifier"
    /\ typeOfToken(decl_spec_seq[k]) # "NO_TYPE"
    /\ Before(k).type_spec # "NO_TYPE"
SameDataAt(k) ==
    /\ decl_fold[k].type_spec = Before(k).type_spec
    /\ decl_fold[k].type_spec_node = Before(k).type_spec_node

\* the first token of the rightmost ptr-operator among the children
RightmostDirectPtr(parts) ==
    LET ops == {k \in DOMAIN parts : parts[k].is = "ptr_operator"}
    IN  IF ops = {} THEN NullToken
        ELSE parts[CHOOSE k \in ops : \A j \in ops : j <= k].at

\* the attached data names a type, a sign or a size
SomeSpecSet(d) ==
    d.type_spec # "NO_TYPE" \/ d.sign_spec # "NO_SIGN" \/ d.size_spec # "NO_SIZE"
\* the sequence has a child that is a simple type specifier or a class, enum,
\* elaborated or typename specifier
HasTypeSpecifier(seq) ==
    \E k \in DOMAIN seq : seq[k].is \in {"simple_type_specifier", "type_specifier"}

(***************************************************************************)
(* Properties                                                              *)
(***************************************************************************)
\* every token rule entered is one the model covers
AllModelled == \A i \in DOMAIN tokens : ~tokens[i].unmodelled

\* C1: for every accepted combination of C standard, C++ standard and
\* extra_features, the feature set of the constructed options is the union
\* of the default features of each selected standard and extra_features.
C1_FeaturesAreUnion ==
    options_.state = "ok" =>
        options_.features_ = StdFeaturesOf(c(languages))
                                 \cup StdFeaturesOf(cxx(languages))
                                 \cup extra_features

\* C2: every newline of the source (outside comments and literals, not
\* spliced away) is returned by lex() as its own WHITESPACE token spelled
\* "\n", whatever KEEP_SPACE is.  The texts of Spec contain no comment, no
\* literal and no backslash, so at EOF lex() has returned as many newline
\* tokens as the text has newlines.  Stated for the options built without
\* KEEP_SPACE in extra_features, the setting the documentation says still
\* returns newlines.
C2_NewlinesReturned ==
    (status = "eof" /\ KEEP_SPACE \notin extra_features) =>
        CountIf(tokens, IsNewlineToken) = CountIf(input, IsNewline)

\* C3: a token returned by the lexer carries SPLITABLE if and only if its
\* kind is RSHIFT, GREATEREQUAL or RSHIFTEQUAL, the C++ dialect is C++11 or
\* later, and the top of the closing-token stack is GREATER when the token
\* is emitted.
C3_Splitable ==
    \A i \in DOMAIN tokens :
        (TF_SPLITABLE \in tokens[i].flags)
            <=> /\ tokens[i].kind \in {"RSHIFT", "GREATEREQUAL", "RSHIFTEQUAL"}
                /\ cxx(options_.languages_) >= CXX11
                /\ tokens[i].closers # <<>>
                /\ Head(tokens[i].closers) = "GREATER"

\* C3 witness: a >>= was returned with SPLITABLE under C++11
C3_Witness ==
    \E i \in DOMAIN tokens :
        /\ TF_SPLITABLE \in tokens[i].flags
        /\ tokens[i].kind = "RSHIFTEQUAL"
        /\ cxx(options_.languages_) >= CXX11

\* C4: after any sequence of lexed tokens the closing-token stack equals the
\* LIFO stack built by the bracket rules (openers push their closer; > pops
\* when the top is >; ), ] and } first pop every > at the top and then pop
\* one more entry exactly when the new top is that closer; nothing else
\* changes the stack) -- so every token of the text is lexed, without fault.
C4_StackFollowsRules ==
    /\ status # "fault"
    /\ closing_tokens_ = RefStack([i \in DOMAIN tokens |-> tokens[i].kind])

\* C5 as stated: for every < that pushed a > closer, either a later > token
\* popped that entry or the closing-token stack is non-empty at EOF.
C5_PoppedByGreaterOrOpen ==
    status = "eof" =>
        \A i \in DOMAIN pushed :
            pushed[i].closer = "GREATER" =>
                pushed[i].fate = "GREATER" \/ closing_tokens_ # <<>>

\* C5 amended: for every < that pushed a > closer, either a later > token
\* popped that entry, or a later ), ] or } token discarded it, or the entry
\* is still on the closing-token stack (which is then non-empty) at EOF.
C5_PoppedOrDiscardedOrOpen ==
    status = "eof" =>
        \A i \in DOMAIN pushed :
            pushed[i].closer = "GREATER" =>
                \/ pushed[i].fate \in {"GREATER", "RPAREN", "RSQUARE", "RBRACE"}
                \/ \E j \in DOMAIN closing_src :
                       closing_src[j] = i /\ closing_tokens_[j] = "GREATER"

\* C5 witness: the text ( < ) was lexed to EOF; the > pushed by < was
\* discarded by the ) that then matched the (, and the stack is empty
C5_Witness ==
    /\ status = "eof"
    /\ closing_tokens_ = <<>>
    /\ input = <<"(", "<", ")">>
    /\ pushed = <<[closer |-> "RPAREN", fate |-> "RPAREN"],
                  [closer |-> "GREATER", fate |-> "RPAREN"]>>

\* C6: with NO_PP_DIRECTIVES off and no comments or literals in the text, a
\* token carries PREPROCESS if and only if it lies between a # (or %:) that
\* starts a line and the first newline after it; the token after the newline
\* that ends a directive line has PREPROCESS clear.
C6_PreprocessFlag ==
    \A i \in DOMAIN tokens :
        tokens[i].kind # "EOF" =>
            ((TF_PREPROCESS \in tokens[i].flags)
                <=> InDirectiveLine(input, tokens[i].offset + 1, options_))

\* C7: the name after a line-starting # gets the directive kind of that name
\* exactly when it is one of the fourteen directive names; every other name
\* gets PP_NULL.
C7_DirectiveNames ==
    pp_kind # "NULL" => pp_kind = ExpectedDirective(pp_name)

\* C8: the spellings of the tokens the lexer emits, concatenated in order,
\* give exactly the text after trigraph replacement and line-splice removal.
\* Stated for the texts without white space, where lex() skips nothing.
C8_SpellingsGiveText ==
    (status = "eof" /\ CountIf(input, IsSpace) = 0) =>
        Concat(tokens) = Normalize(input, options_)

\* C9: the logical characters returned by successive read() calls are the
\* text after replacing the nine trigraphs (only with TRIGRAPHS) and then
\* deleting every backslash-newline pair, also one whose backslash came
\* from ??/.
C9_LogicalChars ==
    LET norm == Normalize(input, options_)
    IN  /\ Len(logical) <= Len(norm)
        /\ logical = SubSeq(norm, 1, Len(logical))
        /\ status = "eof" => logical = norm

\* C9 witness: with TRIGRAPHS on, a text holding ??/ newline = was read to
\* its end and the splice left only the = of those five characters
C9_Witness ==
    /\ status = "eof"
    /\ TRIGRAPHS \in options_.features_
    /\ input = <<"?", "?", "/", NL, "=">>
    /\ logical = <<"=">>

\* C10: with DIGRAPHS on and C++11 or later, <: followed by : is lexed as
\* LESS (the :: is left for the next token) unless the character after that
\* second : is : or >, and then <: is LSQUARE with ALTERNATE; any other <: is
\* LSQUARE with ALTERNATE and spelling "<:", always so before C++11.  The
\* token ends right after its spelling and the next token starts there: no
\* character is lost or lexed twice.
C10_LessColon ==
    \A i \in DOMAIN tokens :
        LET t == tokens[i]
            o == t.offset
        IN  (/\ CharAt(input, o + 1) = "<"
             /\ CharAt(input, o + 2) = ":"
             /\ DIGRAPHS \in options_.features_)
            => /\ IF /\ cxx(options_.languages_) >= CXX11
                     /\ CharAt(input, o + 3) = ":"
                     /\ CharAt(input, o + 4) \notin {":", ">"}
                  THEN /\ t.kind = "LESS"
                       /\ t.spelling = <<"<">>
                       /\ TF_ALTERNATE \notin t.flags
                  ELSE /\ t.kind = "LSQUARE"
                       /\ t.spelling = <<"<", ":">>
                       /\ TF_ALTERNATE \in t.flags
               /\ t.end = o + Len(t.spelling)
               /\ i < Len(tokens) => tokens[i + 1].offset = t.end

\* C10 witness: under C++11 a text starting <:: gave LESS and then COLONCOLON
C10_Witness ==
    /\ cxx(options_.languages_) >= CXX11
    /\ Len(tokens) >= 2
    /\ Len(input) >= 3
    /\ SubSeq(input, 1, 3) = <<"<", ":", ":">>
    /\ tokens[1].kind = "LESS"
    /\ tokens[2].kind = "COLONCOLON"
    /\ tokens[2].offset = 1

\* C11: when ucn() has read u or U and rejects the name (too few digits, a
\* surrogate, a code point above 0x1fffff) it has emitted one diagnostic,
\* returns eof, and the position is again the one before the u/U, the text
\* being untouched.
C11_UcnErrorUnconsumed ==
    (/\ status = "done" /\ Len(input) >= 2 /\ input[2] \in {"u", "U"}
     /\ ucn_ret = EOFC)
        => /\ Len(diagnostics) = 1
           /\ pos = 1
           /\ buf = input

\* C12: under C++11 or later, when the hook runs on a >>, >= or >>= token
\* that carries SPLITABLE, that token becomes GREATER ">" at its offset o,
\* exactly one token is inserted right after it, of kind GREATER, EQUAL or
\* GREATEREQUAL respectively and at offset o+1, every other token is kept,
\* so the list grows by one; and the list stays ordered by offset.
C12_SplitTokens ==
    LET i == cursor'
        SecondKind(k) == CASE k = "RSHIFT" -> "GREATER"
                           [] k = "GREATEREQUAL" -> "EQUAL"
                           [] k = "RSHIFTEQUAL" -> "GREATEREQUAL"
        Ordered(ts) == \A m, n \in DOMAIN ts : m < n => ts[m].offset < ts[n].offset
    IN  (/\ status = "eof"
         /\ cxx(options_.languages_) >= CXX11
         /\ tokens[i].kind \in {"RSHIFT", "GREATEREQUAL", "RSHIFTEQUAL"}
         /\ TF_SPLITABLE \in tokens[i].flags)
            => /\ hook_ret'
               /\ Len(tokens') = Len(tokens) + 1
               /\ tokens'[i].kind = "GREATER"
               /\ tokens'[i].spelling = <<">">>
               /\ tokens'[i].offset = tokens[i].offset
               /\ tokens'[i + 1].kind = SecondKind(tokens[i].kind)
               /\ tokens'[i + 1].offset = tokens[i].offset + 1
               /\ \A m \in 1 .. (i - 1) : tokens'[m] = tokens[m]
               /\ \A m \in (i + 1) .. Len(tokens) : tokens'[m + 1] = tokens[m]
               /\ Ordered(tokens')
C12_SplitHook == [][C12_SplitTokens]_vars

\* C12 witness: the >> of <>> was split into > at offset 1 and > at offset 2
C12_Witness ==
    /\ input = <<"<", ">", ">">>
    /\ cxx(options_.languages_) >= CXX11
    /\ hook_ret
    /\ cursor = 2
    /\ Len(tokens) = 4
    /\ tokens[2].kind = "GREATER" /\ tokens[2].offset = 1
    /\ tokens[3].kind = "GREATER" /\ tokens[3].offset = 2
    /\ tokens[3].spelling = <<">">>

\* C13: whenever the DeclSpecifier post-parse action succeeds on a specifier
\* sequence, the attached data has type_spec, sign_spec or size_spec set
\* (not NONE) -- also for sequences of qualifiers or storage-class
\* specifiers only.
C13_SomeSpecifierSet ==
    decl_ok = "true" => SomeSpecSet(decl_aux)

\* C13 as the code has it: the action succeeds on every sequence without a
\* type specifier and attaches data with all three NONE; on success, one of
\* the three is set exactly when the sequence has a simple or other type
\* specifier.
C13_SetIffTypeSpecifier ==
    decl_ok # "none" =>
        /\ ~HasTypeSpecifier(decl_spec_seq) => decl_ok = "true"
        /\ decl_ok = "true" =>
               /\ decl_aux # NoAuxData
               /\ SomeSpecSet(decl_aux) <=> HasTypeSpecifier(decl_spec_seq)

\* C13 witness: the sequence "const" was folded with success, nothing set
C13_Witness ==
    /\ Len(decl_spec_seq) = 1
    /\ decl_spec_seq[1].first = "KW_CONST"
    /\ decl_ok = "true"
    /\ decl_aux.type_qual = {"CONST"}
    /\ ~SomeSpecSet(decl_aux)

C14_LastPtrIsDirect ==
    dcl_aux # NoAuxData => dcl_aux.last_ptr = RightmostDirectPtr(dcl_node)

(***************************************************************************)
(* The literal engine                                                      *)
(***************************************************************************)
DigitVals(s) == [k \in DOMAIN s |-> uxdigitval(s[k])]

RECURSIVE DecValue(_)
\* the value of a decimal numeral that fits in 64 bits
DecValue(s) ==
    IF s = <<>> THEN Zero64
    ELSE MulAdd(DecValue(SubSeq(s, 1, Len(s) - 1)), 10,
                uxdigitval(s[Len(s)])).w

\* s > t for decimal numerals without leading zeros
DecGreater(s, t) ==
    \/ Len(s) > Len(t)
    \/ Len(s) = Len(t) /\ ULess(DigitVals(t), DigitVals(s))

\* 2^63 - 1 and 2^64 - 1 as numerals
D_LLONG_MAX == <<"9", "2", "2", "3", "3", "7", "2", "0", "3", "6", "8", "5", "4", "7", "7", "5", "8", "0", "7">>
D_ULLONG_MAX == <<"1", "8", "4", "4", "6", "7", "4", "4", "0", "7", "3", "7", "0", "9", "5", "5", "1", "6", "1", "5">>

IsUnsuffixedDecimal(node) ==
    /\ node.is = "numeric_literal"
    /\ node.firstToken.kind = "DEC_INT_LITERAL"
    /\ node.firstToken.spelling # <<>>
    /\ \A k \in DOMAIN node.firstToken.spelling :
           isudigit(node.firstToken.spelling[k])

\* C16: an unsuffixed decimal literal above the largest signed 64-bit
\* value is read as unsigned long long (INT, LONG_LONG, UNSIGNED), and u is
\* its value when the value fits in 64 bits
C16_HugeDecimalIsUnsignedLongLong ==
    (/\ lit_state # "none"
     /\ IsUnsuffixedDecimal(lit_a)
     /\ DecGreater(lit_a.firstToken.spelling, D_LLONG_MAX))
        => /\ lit_state = "done"
           /\ lit_A.type = ExprType("UNSIGNED", "LONG_LONG", "INT")
           /\ ~DecGreater(lit_a.firstToken.spelling, D_ULLONG_MAX)
                 => lit_A.val = IntVal(DecValue(lit_a.firstToken.spelling))

LiteralClasses ==
    {"numeric_literal", "character_literal", "string_literal",
     "boolean_literal", "pointer_literal"}

\* C17: every literal the constructor accepts is equivalent to itself under
\* its own type
C17_SelfEquivalent ==
    (lit_state = "done" /\ lit_a.is \in LiteralClasses) => lit_self

\* a literal of core type INT that holds a value of its type
IsIntegerValue(L) ==
    /\ L.type.type = "INT"
    /\ L.val.k = "int"
    /\ ~L.ub
    /\ Cast(L.val.w, bitsOf(L.type), isSigned(L.type)) = L.val.w

\* the mathematical value: sign and magnitude
ValueOf(L) ==
    IF isSigned(L.type) /\ IsNegative(L.val.w)
    THEN <<"-", Negate(L.val.w)>> ELSE <<"+", L.val.w>>

\* C18: two integer literals are equivalent under their best common type
\* exactly when their mathematical values are equal
C18_EquivalentIffEqualValues ==
    (lit_state = "done" /\ IsIntegerValue(lit_A) /\ IsIntegerValue(lit_B))
        => (lit_equiv <=> ValueOf(lit_A) = ValueOf(lit_B))

(***************************************************************************)
(* Raw string literals and the reset of the token                          *)
(***************************************************************************)
\* C19: the token is reset only by a readToken that emitted a FATAL_ERROR
C19_ResetOnlyOnFatal ==
    token_reset
        => \E k \in DOMAIN diagnostics : diagnostics[k] = "FATAL_ERROR"

\* the index of the ( that ends the delimiter of the raw string the text
\* starts with (0 if there is none)
RawParen ==
    IF \E k \in 3..Len(input) : input[k] = "("
    THEN CHOOSE k \in 3..Len(input) :
             input[k] = "(" /\ \A j \in 3..(k - 1) : input[j] # "("
    ELSE 0
RawDelimiter == SubSeq(input, 3, RawParen - 1)
RawText == SubSeq(input, RawParen + 1, Len(input))

\* a delimiter the language allows
LegalDelimiter(d) ==
    /\ Len(d) <= MAX_DELIMITER_LEN
    /\ \A k \in DOMAIN d : d[k] \notin {" ", NL, "(", ")", BSL, "?"}

\* the terminator )d" stands at index k of the contents
EndsAt(k) ==
    /\ RawText[k] = ")"
    /\ k + Len(RawDelimiter) + 1 <= Len(RawText)
    /\ SubSeq(RawText, k + 1, k + Len(RawDelimiter)) = RawDelimiter
    /\ RawText[k + Len(RawDelimiter) + 1] = "\""
FirstEnd ==
    CHOOSE k \in DOMAIN RawText :
        EndsAt(k) /\ \A j \in 1..(k - 1) : ~EndsAt(j)

\* C20: a raw string literal ends at the first )d" of its contents and is
\* spelled by the contents before it, unchanged
C20_RawStringEndsAtFirstTerminator ==
    (/\ tokens # <<>>
     /\ RawParen > 0
     /\ LegalDelimiter(RawDelimiter)
     /\ \E k \in DOMAIN RawText : EndsAt(k))
        => /\ tokens[1].kind = "STR_LITERAL"
           /\ tokens[1].spelling = SubSeq(RawText, 1, FirstEnd - 1)
           /\ tokens[1].end = RawParen + FirstEnd + Len(RawDelimiter) + 1

\* the parameter lists that are direct children of a declarator level
DirectParms(parts) ==
    {k \in DOMAIN parts : parts[k].is = "parameters_and_qualifiers"}
\* the levels of a declarator: its own children and those of each nested
\* declarator among them
DeclaratorLevels(parts) ==
    <<parts>>
    \o SelectSeq([k \in DOMAIN parts |-> parts[k].parts],
                 LAMBDA inner : inner # <<>>)
MultiParmsReports(D) ==
    Cardinality({k \in DOMAIN D.diags :
        D.diags[k].msg = "multiple sets of function parameters/qualifiers"})
LevelsWithTwoParms(parts) ==
    LET levels == DeclaratorLevels(parts)
    IN  Cardinality({k \in DOMAIN levels :
            Cardinality(DirectParms(levels[k])) >= 2})

\* C21: "multiple sets of function parameters" is reported once for each
\* declarator level that has two or more parameter lists as direct children
\* and for no other level; a parameter list inside a nested declarator
\* together with one at the enclosing level is not reported.
C21_MultiParmsPerLevel ==
    dcl_aux # NoAuxData
        => MultiParmsReports(dcl_aux) = LevelsWithTwoParms(dcl_node)

\* C21, the part the code satisfies: the diagnostic is emitted at most once
\* per level, and at a level with two direct parameter lists it is emitted
C21_AtMostOncePerLevel ==
    dcl_aux # NoAuxData
        => /\ MultiParmsReports(dcl_aux) <= Len(DeclaratorLevels(dcl_node))
           /\ MultiParmsReports(dcl_aux) >= LevelsWithTwoParms(dcl_node)

\* C21: a declarator of the shape (*f(int))(int), one parameter list at each
\* level, has been validated
C21_NestedAndEnclosingParms ==
    /\ dcl_aux # NoAuxData
    /\ Len(DeclaratorLevels(dcl_node)) = 2
    /\ Cardinality(DirectParms(DeclaratorLevels(dcl_node)[1])) = 1
    /\ Cardinality(DirectParms(DeclaratorLevels(dcl_node)[2])) = 1

RECURSIVE AlphaRun(_, _)
\* the number of alphabetic characters of txt from place p on
AlphaRun(txt, p) ==
    IF p <= Len(txt) /\ isualpha(txt[p]) THEN 1 + AlphaRun(txt, p + 1) ELSE 0

\* the text starts with a single #, and a character follows the run of
\* letters after it
StartsWithDirective ==
    /\ Len(input) >= 2
    /\ input[1] = "#" /\ input[2] # "#"
    /\ NO_PP_DIRECTIVES \notin options_.features_
    /\ Len(input) >= AlphaRun(input, 2) + 2

\* C22: after directive recognition on a line-starting #, only the # and the
\* directive name are consumed: for a recognised name the lexer stands on
\* the character that follows the name, for any other name it stands right
\* after the #.
C22_OnlyHashAndNameConsumed ==
    (tokens # <<>> /\ StartsWithDirective)
        => tokens[1].end = IF isPreprocessorDirective(tokens[1].kind)
                           THEN 1 + AlphaRun(input, 2)
                           ELSE 1

\* C22 as the code has it: one character more than the # and a recognised
\* name is consumed, and an unrecognised name is rolled back to one
\* character after the #
C22_OneMoreConsumed ==
    (tokens # <<>> /\ StartsWithDirective)
        => tokens[1].end = IF isPreprocessorDirective(tokens[1].kind)
                           THEN 2 + AlphaRun(input, 2)
                           ELSE 2

\* the suffix letters of a numeric spelling: its letters after the digits
\* (x and b of a prefix and the hexadecimal digits aside)
HasSuffixLetter(tok, letters) ==
    /\ tok.spelling # <<>>
    /\ \E k \in DOMAIN tok.spelling :
           /\ tok.spelling[k] \in letters
           /\ \A j \in k .. Len(tok.spelling) :
                  tok.spelling[j] \in {"u", "U", "l", "L", "f", "F"}
           /\ tok.kind = "HEX_INT_LITERAL" => tok.spelling[k] \notin {"f", "F"}

\* C23: the suffix of every numeric literal is applied to its type: on an
\* integer literal u/U gives sign UNSIGNED and l/L a size of LONG or
\* LONG_LONG; on a floating literal f/F gives the type FLOAT and l/L the
\* size LONG.
C23_SuffixApplied ==
    (lit_state = "done" /\ lit_a.is = "numeric_literal")
        => LET tok == lit_a.firstToken
               isFloat == tok.kind = "FLOAT_LITERAL"
           IN  /\ (~isFloat /\ HasSuffixLetter(tok, {"u", "U"}))
                      => lit_A.type.sign = "UNSIGNED"
               /\ (~isFloat /\ HasSuffixLetter(tok, {"l", "L"}))
                      => lit_A.type.size \in {"LONG", "LONG_LONG"}
               /\ (isFloat /\ HasSuffixLetter(tok, {"f", "F"}))
                      => lit_A.type.type = "FLOAT"
               /\ (isFloat /\ HasSuffixLetter(tok, {"l", "L"}))
                      => lit_A.type.size = "LONG"

\* C23 as the code has it: suffixes are applied to integer literals; a
\* floating literal is DOUBLE without a size whatever its suffix
C23_SuffixAppliedToIntegers ==
    (lit_state = "done" /\ lit_a.is = "numeric_literal")
        => LET tok == lit_a.firstToken
               isFloat == tok.kind = "FLOAT_LITERAL"
           IN  /\ (~isFloat /\ HasSuffixLetter(tok, {"u", "U"}))
                      => lit_A.type.sign = "UNSIGNED"
               /\ (~isFloat /\ HasSuffixLetter(tok, {"l", "L"}))
                      => lit_A.type.size \in {"LONG", "LONG_LONG"}
               /\ isFloat => lit_A.type = [NoType EXCEPT !.type = "DOUBLE"]

\* token i is a character literal that the lexer read from a single plain
\* character between two quotes
PlainCharToken(i) ==
    /\ tokens[i].kind \in CharKinds
    /\ Len(tokens[i].spelling) = 1
    /\ tokens[i].end >= 3 /\ tokens[i].end <= Len(input)
    /\ input[tokens[i].end] = "'"
    /\ input[tokens[i].end - 1] = tokens[i].spelling[1]
    /\ input[tokens[i].end - 2] = "'"

\* the literal the expression matcher builds from token i
LiteralOfToken(i) ==
    Literal(Node1("character_literal", tokens[i].kind, tokens[i].spelling))

\* the type the documentation gives a character literal of each kind
DocumentedCharType(kind) ==
    CASE kind = "CHAR_LITERAL"     -> "CHAR"
      [] kind = "WCHAR_LITERAL"    -> "WCHAR_T"
      [] kind = "U16_CHAR_LITERAL" -> "CHAR16_T"
      [] kind = "U32_CHAR_LITERAL" -> "CHAR32_T"

\* C24: the Literal constructed from a character-literal token that the
\* lexer produced from 'c', L'c', u'c' or U'c' has the type CHAR, WCHAR_T,
\* CHAR16_T or CHAR32_T and the code of c as its value.
C24_CharTokenTyped ==
    \A i \in DOMAIN tokens :
        PlainCharToken(i)
            => /\ LiteralOfToken(i).type.type = DocumentedCharType(tokens[i].kind)
               /\ LiteralOfToken(i).val
                      = IntVal(<<0, 0, 0, CharCode(tokens[i].spelling[1])>>)

\* C24 as the code has it: the token's spelling is the character without
\* its quotes, and the Literal built from it has no type
C24_CharTokenUntyped ==
    \A i \in DOMAIN tokens :
        PlainCharToken(i) => LiteralOfToken(i).type = NoType

\* the grammar of a decimal floating literal
AllDigits(txt) == \A k \in DOMAIN txt : isudigit(txt[k])
IsFractional(txt) ==
    \E k \in DOMAIN txt :
        /\ txt[k] = "."
        /\ AllDigits(SubSeq(txt, 1, k - 1))
        /\ AllDigits(SubSeq(txt, k + 1, Len(txt)))
        /\ Len(txt) >= 2
IsExponent(txt) ==
    /\ Len(txt) >= 2
    /\ txt[1] \in {"e", "E"}
    /\ LET digits == IF txt[2] \in {"+", "-"} THEN SubSeq(txt, 3, Len(txt))
                      ELSE Tail(txt)
       IN  digits # <<>> /\ AllDigits(digits)
IsFloatSuffix(txt) == txt = <<>> \/ (Len(txt) = 1 /\ txt[1] \in {"f", "F", "l", "L"})
IsDecimalFloat(txt) ==
    \E i, j \in 0 .. Len(txt) :
        /\ i <= j
        /\ IsFloatSuffix(SubSeq(txt, j + 1, Len(txt)))
        /\ \/ IsFractional(SubSeq(txt, 1, i))
              /\ (i = j \/ IsExponent(SubSeq(txt, i + 1, j)))
           \/ i >= 1 /\ AllDigits(SubSeq(txt, 1, i))
              /\ IsExponent(SubSeq(txt, i + 1, j))

\* the number of exponent letters in a spelling
ExponentLetters(txt) == Cardinality({k \in DOMAIN txt : txt[k] \in {"e", "E"}})

\* C25: a text that is one decimal floating literal, an exponent right after
\* the integer digits included, is lexed as a single FLOAT_LITERAL token
\* spelled by the whole text.
C25_FloatIsOneToken ==
    (tokens # <<>> /\ IsDecimalFloat(input))
        => /\ tokens[1].kind = "FLOAT_LITERAL"
           /\ tokens[1].spelling = input

\* C25, second part: a FLOAT_LITERAL token has at most one exponent part
C25_OneExponent ==
    \A i \in DOMAIN tokens :
        tokens[i].kind = "FLOAT_LITERAL"
            => ExponentLetters(tokens[i].spelling) <= 1

\* C25 as the code has it: the floating literals with a decimal point are
\* single tokens spelled by the whole text
C25_FractionalIsOneToken ==
    (tokens # <<>> /\ IsDecimalFloat(input)
                   /\ \E k \in DOMAIN input : input[k] = ".")
        => /\ tokens[1].kind = "FLOAT_LITERAL"
           /\ tokens[1].spelling = input

\* the number of characters of the text that are still to be read
Unread == Len(buf) - pos

\* C26: every call of lex() returns a token; a call that returns a token
\* other than EOF leaves fewer characters unread than it found (so it
\* advances by at least one character), and the calls made on a text up to
\* and including the one that returns EOF are at most one more than the text
\* has characters.
C26_EachCallAdvances ==
    [][/\ Len(tokens') = Len(tokens) + 1
       /\ tokens'[Len(tokens')].kind # "EOF" => Unread' < Unread
       /\ Len(tokens') <= Len(input) + 1]_vars

\* C26, the calls that return: a call that does not fault advances and the
\* number of calls is bounded by the length of the text
C26_ReturningCallsAdvance ==
    [][status' # "fault"
          => /\ Len(tokens') = Len(tokens) + 1
             /\ tokens'[Len(tokens')].kind # "EOF" => Unread' < Unread
             /\ Len(tokens') <= Len(input) + 1]_vars

\* sign, size and type of a DeclSpecifier fit together
ConsistentSpecifier(D) ==
    /\ D.sign_spec # "NO_SIGN" => D.type_spec \in {"NO_TYPE", "CHAR", "INT"}
    /\ D.size_spec # "NO_SIZE"
           => \/ D.type_spec \in {"NO_TYPE", "INT"}
              \/ D.type_spec = "DOUBLE" /\ D.size_spec = "LONG"

ClosingBrackets == {"RPAREN", "RSQUARE", "RBRACE"}

\* C28: popClosingTokenIf never compares the front of an empty stack with
\* the closer: no call of lex() faults, and whenever a call returns ), ] or }
\* with the stack non-empty before it, some entry of that stack is not >,
\* so that the stack is still non-empty after the > entries were popped.
C28_FrontOnNonEmptyStack ==
    [][/\ status' # "fault"
       /\ ( /\ Len(tokens') = Len(tokens) + 1
            /\ tokens'[Len(tokens')].kind \in ClosingBrackets
            /\ closing_tokens_ # <<>> )
             => \E j \in DOMAIN closing_tokens_ :
                    closing_tokens_[j] # "GREATER"]_vars

\* the text starts with the two characters && and its first token was lexed
StartsWithAmpAmp ==
    /\ Len(input) >= 2
    /\ input[1] = "&" /\ input[2] = "&"
    /\ tokens # <<>>

\* C29: under every dialect a text that starts with && gives the one token
\* AMPAMP made of both characters.
C29_AmpAmpIsOneToken ==
    StartsWithAmpAmp =>
        /\ tokens[1].kind = "AMPAMP"
        /\ tokens[1].offset = 0
        /\ tokens[1].end = 2

\* what holds instead: && is the one token AMPAMP under C++11 and later,
\* and the token AMP made of the first & alone under every other dialect
C29_AmpAmpFromCXX11 ==
    StartsWithAmpAmp =>
        IF cxx(options_.languages_) >= CXX11
        THEN tokens[1].kind = "AMPAMP" /\ tokens[1].end = 2
        ELSE tokens[1].kind = "AMP" /\ tokens[1].end = 1

\* the text starts with an ASCII letter or a decimal digit and its first
\* token was lexed
StartsWithLetterOrDigit ==
    /\ input # <<>>
    /\ isualpha(input[1]) \/ isudigit(input[1])
    /\ tokens # <<>>

\* C30: under every dialect, the token lex() returns for a text that starts
\* with an ASCII letter or a decimal digit has a kind other than NULL.
C30_LetterOrDigitGivesToken ==
    StartsWithLetterOrDigit => tokens[1].kind # "NULL"

\* where the kind stays NULL: 0x or 0X without a hexadecimal digit after it,
\* 0b or 0B without a 0 or 1 after it where binary literals are enabled,
\* and u', U' and U" under a dialect before C11 and before C++11
NullAtStart ==
    \/ /\ Len(input) >= 2 /\ input[1] = "0" /\ input[2] \in {"x", "X"}
       /\ ~(Len(input) >= 3 /\ isuxdigit(input[3]))
    \/ /\ Len(input) >= 2 /\ input[1] = "0" /\ input[2] \in {"b", "B"}
       /\ have(options_, {BINARY_LITERALS})
       /\ ~(Len(input) >= 3 /\ input[3] \in {"0", "1"})
    \/ /\ Len(input) >= 2
       /\ \/ input[1] = "u" /\ input[2] = "'"
          \/ input[1] = "U" /\ input[2] \in {"'", "\""}
       /\ ~unicodeLiterals(options_)

\* what holds instead on the texts lexed here: the kind is NULL in exactly
\* those cases
C30_NullOnlyAfterPrefix ==
    StartsWithLetterOrDigit => (tokens[1].kind = "NULL" <=> NullAtStart)

====
